---------------------------- MODULE Spec2Model ----------------------------
(***************************************************************************)
(* Verification model of the SUBLYM dream pipeline (generation/pipeline.py *)
(* and generation/services/*.py).                                          *)
(*                                                                         *)
(* The specifications of this module share its variables:                  *)
(*   Spec        - DreamPipeline.run, the orchestrator, one action per     *)
(*                 stage, one action per keyframe and per video scene      *)
(*   SpecKf      - the attempt loop of one keyframe, one action per        *)
(*                 attempt, with the log of the attempts                   *)
(*   SpecLedger  - the cost counters of ScenarioGenerator                  *)
(*   SpecScript  - step 3 of generate_v7 and convert_v7_to_pipeline        *)
(*   SpecAsk     - one sub-question: _ask, _call_openai_structured and     *)
(*                 the graduated review _validate                          *)
(*   SpecGaze    - the gaze rule of every generation attempt of a keyframe *)
(*   SpecContent - the outfit of step 4, the framing of step 9 and their   *)
(*                 conversion into the video scenarios                     *)
(*   SpecFace    - ImageValidator.validate and FaceValidator.validate      *)
(*   SpecReview  - the semantic review of ImageValidator, on two reviews   *)
(*                 that differ only in their identity-adjacent outputs     *)
(*   SpecStages  - the stage gates of DreamPipeline.run, from the flags of *)
(*                 the caller to the returned result                       *)
(*   SpecWorkers - one parallel per-scene step of generate_v7              *)
(*   SpecIdentity- the validator of one run, from construction to one      *)
(*                 validated keyframe                                      *)
(*   SpecVerdict - one validated attempt whose vision call may fail        *)
(*   SpecProgress- the percentages handed to the progress callback         *)
(*   SpecPose    - the two keyframes of one scene with the pub shortcuts   *)
(*   SpecBackend - the run records of one dream in the backend             *)
(*   SpecLive    - Spec with every enabled step eventually taken           *)
(*   SpecCalls   - the generation calls of one keyframe, made by the       *)
(*                 attempt loop or by the switch loop of pub mode          *)
(***************************************************************************)
EXTENDS Integers, Naturals, Sequences, FiniteSets, TLC

VARIABLES
    \* ---- DreamPipeline.run ----
    pc,            \* position of run()
    cfg,           \* the arguments of the run as they were at invocation
    steps,         \* the stage-flag map passed by the caller (run writes it)
    state,         \* the `state` dict of run()
    results,       \* the `results` dict of run()
    cur,           \* loop position (scene index, keyframe type) and the stage it is in
    dirs_created,  \* self._dirs_created
    disk,          \* files the run leaves on disk and calls to external tools
    \* ---- attempt loop of one keyframe ----
    kfctx,         \* is_critical_kf, kf_max_attempts, validating, dry_run
    loop,          \* the local variables of the attempt loop
    log,           \* the outcome of every attempt so far
    kfres,         \* what the end of the loop did (registration, warnings, errors)
    \* ---- cost ledger ----
    costs_generation, costs_validation, costs_real, costs_lock, pending,
    \* ---- script generator ----
    sc,            \* generate_v7 and convert_v7_to_pipeline: the scene list
    ask,           \* one sub-question: _ask, its call and its review
    gz,            \* the gaze rule handed to the image service, attempt by attempt
    v7,            \* per-scene answers of steps 4 and 9 and their conversion
    fv,            \* one validation of a generated image (ImageValidator.validate)
    gm,            \* two semantic reviews that differ in their identity-adjacent outputs
    \* ---- stage gates of run() and the parallel steps of generate_v7 ----
    sg,            \* run() stage by stage: flags, executed list, work done, costs
    pw             \* one parallel per-scene step: workers, result slots, shared writes

pipeVars   == <<pc, cfg, steps, state, results, cur, dirs_created, disk>>
kfVars     == <<kfctx, loop, log, kfres>>
ledgerVars == <<costs_generation, costs_validation, costs_real, costs_lock, pending>>
scriptVars == <<sc>>
askVars    == <<ask>>
gazeVars   == <<gz>>
contentVars == <<v7>>
faceVars   == <<fv>>
reviewVars == <<gm>>
stageVars  == <<sg>>
workerVars == <<pw>>
svcVars    == <<askVars, gazeVars, contentVars, faceVars, reviewVars, stageVars, workerVars>>
vars       == <<pipeVars, kfVars, ledgerVars, scriptVars, svcVars>>

-----------------------------------------------------------------------------
(* Bounds of the model *)

MaxScenes == 2        \* scenes of a script
MaxScore == 1         \* score levels 0..MaxScore returned by the validator
MaxCfgAttempts == 3   \* configured max_attempts ranges over 1..MaxCfgAttempts
MaxThreads == 2       \* worker threads calling the language model at once
MaxTokens == 1        \* tokens a call reports, 0..MaxTokens each way
MaxCalls == 3         \* calls to the language model in a run
MaxRetries == 3       \* configured llm.max_retries ranges over 0..MaxRetries
MaxAnswers == 2       \* distinct answers the language model can give

(* Program constants *)

CriticalAttempts == 7     \* pipeline.py:620
DefaultMaxAttempts == 7   \* pipeline.py:146, max_attempts of a config without the key
DefaultSwitchAttempts == 5  \* pipeline.py:547, switch_max of a config without the key
MAX_VIDEO_ATTEMPTS == 4   \* pipeline.py:34
InitialBestScore == -1    \* pipeline.py:632
DEFAULT_THRESHOLD == 80   \* face_validator.py:40, in hundredths
DefaultTolerance == 30    \* face_validator.py:49, in hundredths
NoTolerance == -1         \* None in "face_tolerance_by_shot", settings.py:339
GlobalMinScore == 75      \* settings.py:221, in hundredths
MaxFaces == 2         \* faces in a generated image range over 0..MaxFaces

KfTypes == <<"start", "end">>   \* pipeline.py:509

-----------------------------------------------------------------------------
(***************************************************************************)
(* The attempt loop of one keyframe, pipeline.py:618-780.                  *)
(*                                                                         *)
(* An image is identified by the number of the attempt that wrote it       *)
(* (0 = no file).  path_img is the content of <path>, best_img the content *)
(* of <path>.best.                                                         *)
(***************************************************************************)

\* is_critical_kf, pipeline.py:619
IsCriticalKf(idx, kf_type, total) ==
    (idx = 1 /\ kf_type = "start") \/ (idx = total /\ kf_type = "end")

\* kf_max_attempts, pipeline.py:620
KfMaxAttempts(is_critical_kf, max_attempts) ==
    IF is_critical_kf THEN CriticalAttempts ELSE max_attempts

\* What one attempt can return: the image service (gen), then the validator
\* (passed, score).  In dry-run the image service and the validator are mocks
\* (image_generator.py:351-359, image_validator.py:72-73).
Outcomes(dry_run, validating) ==
    IF dry_run
    THEN {[gen |-> TRUE, passed |-> TRUE, score |-> MaxScore]}
    ELSE IF validating
    THEN {[gen |-> FALSE, passed |-> FALSE, score |-> 0]}
         \cup {[gen |-> TRUE, passed |-> p, score |-> s] :
                  p \in BOOLEAN, s \in 0..MaxScore}
    ELSE {[gen |-> g, passed |-> FALSE, score |-> 0] : g \in BOOLEAN}

\* Local variables before the first attempt, pipeline.py:630-634
LoopInit ==
    [attempt |-> 0, success |-> FALSE, best_score |-> InitialBestScore,
     best_path |-> "None", gen_failures |-> 0,
     path_img |-> 0, best_img |-> 0, validated |-> FALSE]

\* A loop that lets a later attempt of equal score replace the kept one
BeatsBest_OrEqual(attempt_score, best_score) == attempt_score >= best_score

\* The attempt keeps a failing candidate when its score beats the best so far,
\* pipeline.py:731
BeatsBest(attempt_score, best_score) == attempt_score > best_score

\* One iteration of `for attempt in range(kf_max_attempts)`, pipeline.py:635-740
AttemptStep(l, o, validating) ==
    LET a == l.attempt + 1 IN
    IF ~o.gen
    THEN [l EXCEPT !.attempt = a, !.gen_failures = @ + 1]
    ELSE IF validating
    THEN IF o.passed
         THEN [l EXCEPT !.attempt = a, !.path_img = a, !.success = TRUE,
                        !.best_path = "path", !.validated = TRUE]
         ELSE IF BeatsBest(o.score, l.best_score)
         THEN [l EXCEPT !.attempt = a, !.path_img = a, !.best_score = o.score,
                        !.best_img = a, !.best_path = "best"]
         ELSE [l EXCEPT !.attempt = a, !.path_img = a]
    ELSE [l EXCEPT !.attempt = a, !.path_img = a, !.success = TRUE,
                   !.best_path = "path"]

\* A loop that makes one attempt more than its bound
LoopRunning_PastBound(l, kf_max_attempts) ==
    ~l.success /\ l.attempt <= kf_max_attempts

\* A loop that goes on after an accepted attempt
LoopRunning_IgnoreSuccess(l, kf_max_attempts) == l.attempt < kf_max_attempts

\* The loop goes on: no break yet and attempts left, pipeline.py:635,727,740
LoopRunning(l, kf_max_attempts) == ~l.success /\ l.attempt < kf_max_attempts

\* A registration that treats a critical keyframe like any other
ShouldRegister_AnyFile(success, is_critical_kf, file_exists) ==
    success \/ file_exists

\* The registration test, pipeline.py:775-776
ShouldRegister(success, is_critical_kf, file_exists) ==
    success \/ (~is_critical_kf /\ file_exists)

\* After the loop: failure handling, cleanup and registration,
\* pipeline.py:742-780.  Returns the files left, what was registered and the
\* entries added to results["errors"] and results["warnings"].
FinishKeyframe(l, is_critical_kf, kf_max_attempts) ==
    LET critFail == ~l.success /\ is_critical_kf
        useBest  == ~l.success /\ ~is_critical_kf /\ l.best_path = "best"
        allGen   == ~l.success /\ ~is_critical_kf /\ l.best_path # "best"
                    /\ l.gen_failures = kf_max_attempts
        path1    == IF useBest THEN l.best_img ELSE l.path_img
        \* .best is unlinked at 747, 758 and 772, each only under
        \* best_path != str(path)
        best1    == IF l.best_path = "best" THEN 0 ELSE l.best_img
        reg      == ShouldRegister(l.success, is_critical_kf, path1 # 0)
    IN [path_img   |-> path1,
        best_img   |-> best1,
        registered |-> reg,
        artifact   |-> IF reg THEN path1 ELSE 0,
        verdict    |-> IF ~reg THEN "none"
                       ELSE IF ~l.success THEN "failed"
                       ELSE IF l.validated THEN "passed" ELSE "unvalidated",
        errors     |-> IF critFail THEN 1 ELSE 0,
        warnings   |-> IF allGen THEN 1 ELSE 0,
        exhausted  |-> ~l.success,
        done       |-> TRUE]

\* kfres before the end of the loop has run
NoKfRes ==
    [path_img |-> 0, best_img |-> 0, registered |-> FALSE, artifact |-> 0,
     verdict |-> "none", errors |-> 0, warnings |-> 0, exhausted |-> FALSE,
     done |-> FALSE]

\* Every state in which the loop of one keyframe can end: the loop states
\* after at most kf_max_attempts iterations, pipeline.py:635-740
RECURSIVE LoopReach(_, _, _, _, _)
LoopReach(S, n, kf_max_attempts, validating, dry_run) ==
    IF n = 0 THEN S
    ELSE LoopReach(
           {l \in S : ~LoopRunning(l, kf_max_attempts)}
           \cup {AttemptStep(l, o, validating) :
                   l \in {x \in S : LoopRunning(x, kf_max_attempts)},
                   o \in Outcomes(dry_run, validating)},
           n - 1, kf_max_attempts, validating, dry_run)

LoopFinals(kf_max_attempts, validating, dry_run) ==
    LoopReach({LoopInit}, kf_max_attempts, kf_max_attempts, validating, dry_run)

-----------------------------------------------------------------------------
(* SpecKf: the attempt loop of one keyframe, attempt by attempt *)

\* max_attempts as run() reads it, pipeline.py:146: the value of the config,
\* or the default when the config has no such key (DreamPipeline(config=None),
\* pipeline.py:41)
ConfiguredMaxAttempts == (1..MaxCfgAttempts) \cup {DefaultMaxAttempts}

KfContexts ==
    [is_critical_kf : BOOLEAN, max_attempts : ConfiguredMaxAttempts,
     validating : BOOLEAN, dry_run : BOOLEAN]

KfBound == KfMaxAttempts(kfctx.is_critical_kf, kfctx.max_attempts)

\* One attempt: generation, then validation, pipeline.py:635-740
Attempt ==
    /\ ~kfres.done
    /\ LoopRunning(loop, KfBound)
    /\ \E o \in Outcomes(kfctx.dry_run, kfctx.validating) :
          /\ loop' = AttemptStep(loop, o, kfctx.validating)
          /\ log' = Append(log, o)
    /\ UNCHANGED <<kfctx, kfres>>

\* The end of the loop, pipeline.py:742-780
Finish ==
    /\ ~kfres.done
    /\ ~LoopRunning(loop, KfBound)
    /\ kfres' = FinishKeyframe(loop, kfctx.is_critical_kf, KfBound)
    /\ UNCHANGED <<kfctx, loop, log>>

-----------------------------------------------------------------------------
(***************************************************************************)
(* DreamPipeline.run, pipeline.py:62-998, mode "scenario".                 *)
(*                                                                         *)
(* Scenes are numbered 1..n in script order.  A registered keyframe is     *)
(* recorded by where its image comes from: "preloaded" (keyframes_dir),    *)
(* "passed" (an attempt the validator accepted), "unvalidated" (an attempt *)
(* accepted without validation) or "failed" (an attempt the validator      *)
(* rejected); "none" is a missing key.                                     *)
(***************************************************************************)

Scenes == 1..MaxScenes
Keys == Scenes \X {"start", "end"}

StepNames ==
    {"generate_scenario", "generate_keyframes", "validate_keyframes",
     "generate_videos", "generate_montage"}

Entry(kind, scene, kf) == [kind |-> kind, scene |-> scene, kf |-> kf]

\* results at pipeline.py:88-95
ResultsInit ==
    [steps_executed |-> <<>>, success |-> FALSE, errors |-> <<>>,
     warnings |-> <<>>, final_video |-> FALSE]

\* state at pipeline.py:98-111, before the existing data is loaded
StateInit ==
    [global_scenario |-> FALSE, video_scenarios |-> 0,
     keyframe_paths |-> [k \in Keys |-> "none"],
     kf_outcome |-> [k \in Keys |-> "pending"],
     video_paths |-> <<>>, failed_videos |-> <<>>]

DiskInit ==
    [concat_calls |-> 0, video_calls |-> 0, best_files |-> 0,
     results_json |-> FALSE]

\* The sequence 1, 2, .. n
RECURSIVE Upto(_)
Upto(n) == IF n = 0 THEN <<>> ELSE Append(Upto(n - 1), n)

\* _load_keyframes, pipeline.py:1056-1066: the directory holds the start and
\* the end keyframe of the scenes 1..n
LoadKeyframes(n) ==
    [k \in Keys |-> IF k[1] <= n THEN "preloaded" ELSE "none"]

\* except Exception, pipeline.py:982-987
ExceptHandler(r) ==
    [r EXCEPT !.errors = Append(@, Entry("exception", 0, "-"))]

\* Loading of the existing data, pipeline.py:113-146
Load ==
    /\ pc = "load"
    /\ state' = [state EXCEPT
          !.global_scenario = cfg.scenario_json,
          !.video_scenarios = IF cfg.scenario_json THEN cfg.nb ELSE 0,
          !.keyframe_paths = IF cfg.keyframes_dir THEN LoadKeyframes(cfg.nb)
                             ELSE @,
          !.video_paths = IF cfg.videos_dir THEN Upto(cfg.nb) ELSE @]
    /\ pc' = "scenario"
    /\ UNCHANGED <<cfg, steps, results, cur, dirs_created, disk>>

\* Stages 2-4 in mode "scenario", pipeline.py:193-270: generate_v7, the
\* conversion and the saving of the JSON files.  generate_v7 raises when the
\* API key is missing (scenario_generator.py:2257); _save_json raises when the
\* file cannot be written, after _ensure_dirs has set _dirs_created.
ScenarioStage ==
    /\ pc = "scenario"
    /\ steps.generate_scenario
    /\ \E out \in IF cfg.dry_run THEN {"ok", "save_raises"}
                  ELSE {"ok", "generate_raises", "save_raises"} :
         IF out = "ok"
         THEN /\ state' = [state EXCEPT !.global_scenario = TRUE,
                                        !.video_scenarios = cfg.nb]
              /\ results' = [results EXCEPT !.steps_executed =
                    @ \o <<"generate_palette", "generate_scenario",
                           "generate_scenes">>]
              /\ dirs_created' = TRUE
              /\ pc' = "keyframes"
         ELSE IF out = "save_raises"
         THEN /\ state' = [state EXCEPT !.global_scenario = TRUE,
                                        !.video_scenarios = cfg.nb]
              /\ results' = ExceptHandler([results EXCEPT !.steps_executed =
                    @ \o <<"generate_palette", "generate_scenario",
                           "generate_scenes">>])
              /\ dirs_created' = TRUE
              /\ pc' = "save"
         ELSE /\ results' = ExceptHandler(results)
              /\ pc' = "save"
              /\ UNCHANGED <<state, dirs_created>>
    /\ UNCHANGED <<cfg, steps, cur, disk>>

\* generate_scenario is off: the legacy branch runs and, its own flags being
\* absent, does nothing, pipeline.py:334-466
ScenarioSkip ==
    /\ pc = "scenario"
    /\ ~steps.generate_scenario
    /\ pc' = "keyframes"
    /\ UNCHANGED <<cfg, steps, state, results, cur, dirs_created, disk>>

\* The keyframe stage is skipped, pipeline.py:479
KeyframesSkip ==
    /\ pc = "keyframes"
    /\ ~(steps.generate_keyframes /\ state.video_scenarios > 0)
    /\ pc' = "videos"
    /\ UNCHANGED <<cfg, steps, state, results, cur, dirs_created, disk>>

\* The position after (idx, kf_type) in the two nested loops, pipeline.py:484,509
NextKf(c) ==
    IF c.kf = "start" THEN [c EXCEPT !.kf = "end"]
    ELSE [c EXCEPT !.idx = @ + 1, !.kf = "start"]

\* What the attempts of one keyframe came to
KfOutcome(l, f, is_critical_kf) ==
    IF l.success THEN "accepted"
    ELSE IF is_critical_kf THEN "critical_failed"
    ELSE IF f.registered THEN "degraded"
    ELSE "no_image"

\* results["steps_executed"] at the end of the keyframe stage, pipeline.py:782-784
KeyframeStageDone(r) ==
    [r EXCEPT !.steps_executed =
        IF steps.validate_keyframes
        THEN @ \o <<"generate_keyframes", "validate_keyframes">>
        ELSE Append(@, "generate_keyframes")]

\* How the processing of one keyframe can end, as far as the run state goes:
\* the outcome, the provenance of the registered image, the entries added and
\* whether a .best file stays on disk
KfEnd(l, is_critical_kf, kf_max_attempts) ==
    LET f == FinishKeyframe(l, is_critical_kf, kf_max_attempts)
    IN [outcome |-> KfOutcome(l, f, is_critical_kf),
        registered |-> f.registered, verdict |-> f.verdict,
        errors |-> f.errors, warnings |-> f.warnings,
        best_left |-> f.best_img # 0]

\* The ends of every run of the attempt loop, per kind of keyframe
KfEndsTable ==
    {<<c, LET bound == KfMaxAttempts(c.is_critical_kf, c.max_attempts)
          IN {KfEnd(l, c.is_critical_kf, bound) :
                 l \in LoopFinals(bound, c.validating, c.dry_run)}>> :
        c \in KfContexts}

KfEnds(c) == (CHOOSE t \in KfEndsTable : t[1] = c)[2]

\* One keyframe of the keyframe stage: the attempts, the failure handling and
\* the registration, pipeline.py:484-511 and 603-780; after the last keyframe,
\* pipeline.py:782-784
Keyframe ==
    /\ pc = "keyframes"
    /\ steps.generate_keyframes /\ state.video_scenarios > 0
    /\ LET total    == state.video_scenarios
           key      == <<cur.idx, cur.kf>>
           crit     == IsCriticalKf(cur.idx, cur.kf, total)
           last     == cur.idx = total /\ cur.kf = "end"
           ctx      == [is_critical_kf |-> crit, max_attempts |-> cfg.max_attempts,
                        validating |-> steps.validate_keyframes,
                        dry_run |-> cfg.dry_run]
       IN \E e \in KfEnds(ctx) :
            LET r1 == [results EXCEPT
                         !.errors = IF e.errors > 0
                                    THEN Append(@, Entry("critical_kf", cur.idx, cur.kf))
                                    ELSE @,
                         !.warnings = IF e.warnings > 0
                                      THEN Append(@, Entry("all_gen_failed", cur.idx, cur.kf))
                                      ELSE @]
            IN /\ state' = [state EXCEPT
                    !.keyframe_paths[key] = IF e.registered THEN e.verdict ELSE @,
                    !.kf_outcome[key] = e.outcome]
               /\ results' = IF last THEN KeyframeStageDone(r1) ELSE r1
               /\ disk' = [disk EXCEPT !.best_files =
                              IF e.best_left THEN @ + 1 ELSE @]
               /\ cur' = IF last THEN [cur EXCEPT !.idx = 1, !.kf = "start"]
                                 ELSE NextKf(cur)
               /\ pc' = IF last THEN "videos" ELSE "keyframes"
    /\ UNCHANGED <<cfg, steps, dirs_created>>

\* The image service cannot be used at all (SDK or GEMINI_API_KEY missing):
\* _call_gemini raises outside its try, image_generator.py:128-133, at the
\* first generation of the stage
KeyframeRaise ==
    /\ pc = "keyframes"
    /\ steps.generate_keyframes /\ state.video_scenarios > 0
    /\ ~cfg.dry_run
    /\ cur = [idx |-> 1, kf |-> "start", stage |-> "none"]
    /\ results' = ExceptHandler(results)
    /\ pc' = "save"
    /\ UNCHANGED <<cfg, steps, state, cur, dirs_created, disk>>

\* The keyword parameters of VideoGenerator.generate, video_generator.py:34-36
VideoGenerateParams ==
    {"start_image", "end_image", "action", "camera_movement", "is_pov",
     "duration", "output_path"}

\* The keyword the orchestrator passes besides the positional arguments,
\* pipeline.py:820-824
VideoCallKeywords == {"transition_path"}

\* What one call self.video_gen.generate(...) of pipeline.py:820-824 can do:
\* a keyword the callee does not declare is a TypeError at the call; otherwise
\* the mock succeeds (video_generator.py:98-103) and the service returns a
\* success or a structured failure (video_generator.py:71-96)
VideoCallOutcomes(dry_run) ==
    IF ~(VideoCallKeywords \subseteq VideoGenerateParams) THEN {"raise"}
    ELSE IF dry_run THEN {"ok"}
    ELSE {"ok", "fail"}

\* The video stage is skipped, pipeline.py:790
VideosSkip ==
    /\ pc = "videos"
    /\ ~steps.generate_videos
    /\ pc' = "montage"
    /\ UNCHANGED <<cfg, steps, state, results, cur, dirs_created, disk>>

\* A video stage that keeps the clips loaded from a directory
ResetVideoLists_KeepLoaded(st) == [st EXCEPT !.failed_videos = <<>>]

\* The lists of the video stage start empty, pipeline.py:791-792
ResetVideoLists(st) == [st EXCEPT !.video_paths = <<>>, !.failed_videos = <<>>]

\* Start of the video stage, pipeline.py:790-794
VideosBegin ==
    /\ pc = "videos"
    /\ steps.generate_videos
    /\ state' = ResetVideoLists(state)
    /\ cur' = [idx |-> 1, kf |-> "start", stage |-> "videos"]
    /\ pc' = "video_loop"
    /\ UNCHANGED <<cfg, steps, results, dirs_created, disk>>

\* Both keyframes of the scene are registered, pipeline.py:799-802
HasBothKeyframes(st, i) ==
    /\ st.keyframe_paths[<<i, "start">>] # "none"
    /\ st.keyframe_paths[<<i, "end">>] # "none"

\* A scene without its clip is recorded as failed, pipeline.py:804 and 839
RecordFailedVideo(st, i) == [st EXCEPT !.failed_videos = Append(@, i)]

\* One scene of the video stage, pipeline.py:796-840: the scene is skipped when
\* a keyframe is missing; otherwise the service is called up to
\* MAX_VIDEO_ATTEMPTS times, `calls` being the number of calls made and `last`
\* what the last of them did, every earlier one having failed
VideoScene ==
    /\ pc = "video_loop"
    /\ cur.idx <= state.video_scenarios
    /\ IF ~HasBothKeyframes(state, cur.idx)
       THEN /\ state' = RecordFailedVideo(state, cur.idx)
            /\ results' = [results EXCEPT !.warnings =
                              Append(@, Entry("missing_keyframes", cur.idx, "-"))]
            /\ cur' = [cur EXCEPT !.idx = @ + 1]
            /\ pc' = "video_loop"
            /\ disk' = disk
       ELSE \E calls \in 1..MAX_VIDEO_ATTEMPTS,
               last \in VideoCallOutcomes(cfg.dry_run) :
              /\ calls > 1 => "fail" \in VideoCallOutcomes(cfg.dry_run)
              /\ last = "fail" => calls = MAX_VIDEO_ATTEMPTS
              /\ disk' = [disk EXCEPT !.video_calls = @ + calls]
              /\ IF last = "raise"
                 THEN /\ results' = ExceptHandler(results)
                      /\ pc' = "save"
                      /\ UNCHANGED <<state, cur>>
                 ELSE IF last = "ok"
                 THEN /\ state' = [state EXCEPT !.video_paths = Append(@, cur.idx)]
                      /\ cur' = [cur EXCEPT !.idx = @ + 1]
                      /\ pc' = "video_loop"
                      /\ results' = results
                 ELSE /\ state' = RecordFailedVideo(state, cur.idx)
                      /\ results' = [results EXCEPT !.errors =
                                        Append(@, Entry("video_failed", cur.idx, "-"))]
                      /\ cur' = [cur EXCEPT !.idx = @ + 1]
                      /\ pc' = "video_loop"
    /\ UNCHANGED <<cfg, steps, dirs_created>>

\* End of the video stage: the completeness check, pipeline.py:842-857
VideosEnd ==
    /\ pc = "video_loop"
    /\ cur.idx > state.video_scenarios
    /\ LET videos_failed == Len(state.failed_videos)
           r1 == [results EXCEPT !.steps_executed = Append(@, "generate_videos")]
       IN IF videos_failed > 0
          THEN /\ results' = [r1 EXCEPT
                     !.errors = Append(@, Entry("videos_failed", videos_failed, "-")),
                     !.success = FALSE]
               /\ steps' = [steps EXCEPT !.generate_montage = FALSE]
          ELSE /\ results' = r1
               /\ steps' = steps
    /\ pc' = "montage"
    /\ UNCHANGED <<cfg, state, cur, dirs_created, disk>>

\* The montage stage, pipeline.py:862-949 (mode "scenario"): concat is
\* VideoMontage.concat, video_montage.py:16-44, which succeeds or fails
MontageStage ==
    /\ pc = "montage"
    /\ IF ~steps.generate_montage
       THEN UNCHANGED <<results, disk>>
       ELSE IF state.video_paths = <<>>
       THEN /\ results' = [results EXCEPT
                  !.errors = Append(@, Entry("no_videos", 0, "-")),
                  !.success = FALSE]
            /\ disk' = disk
       ELSE IF state.failed_videos # <<>>
       THEN /\ results' = [results EXCEPT !.success = FALSE]
            /\ disk' = disk
       ELSE IF cfg.dry_run
       THEN /\ results' = [results EXCEPT
                  !.final_video = TRUE, !.success = TRUE,
                  !.steps_executed = Append(@, "generate_montage")]
            /\ disk' = disk
       ELSE \E concat_ok \in BOOLEAN :
              /\ disk' = [disk EXCEPT !.concat_calls = @ + 1]
              /\ results' =
                   IF concat_ok
                   THEN [results EXCEPT
                           !.final_video = TRUE, !.success = TRUE,
                           !.steps_executed = Append(@, "generate_montage")]
                   ELSE [results EXCEPT
                           !.errors = Append(@, Entry("montage_failed", 0, "-")),
                           !.success = FALSE,
                           !.steps_executed = Append(@, "generate_montage")]
    /\ pc' = "finalize"
    /\ UNCHANGED <<cfg, steps, state, cur, dirs_created>>

\* A closing rule that does not look at the error list
FinalSuccess_IgnoreErrors(r, montage_flag, dry_run) ==
    IF ~montage_flag \/ dry_run THEN [r EXCEPT !.success = TRUE] ELSE r

\* "Succès si pas de montage demandé et pas d'erreurs", pipeline.py:951-953
FinalSuccess(r, montage_flag, dry_run) ==
    IF (~montage_flag \/ dry_run) /\ r.errors = <<>>
    THEN [r EXCEPT !.success = TRUE]
    ELSE r

\* The end of the try block, pipeline.py:951-980: the success rule, then the
\* metadata, where state.get("global_scenario", {}).get("title", "") raises
\* AttributeError when no scenario was generated or loaded (the key holds None)
Finalize ==
    /\ pc = "finalize"
    /\ LET r1 == FinalSuccess(results, steps.generate_montage, cfg.dry_run)
       IN results' = IF state.global_scenario THEN r1 ELSE ExceptHandler(r1)
    /\ pc' = "save"
    /\ UNCHANGED <<cfg, steps, state, cur, dirs_created, disk>>

\* After the try block, pipeline.py:989-998: results.json is written when the
\* run created its directories; the write is outside the try, so an OSError of
\* _save_json leaves run() through the caller
Save ==
    /\ pc = "save"
    /\ IF dirs_created
       THEN \E write_ok \in BOOLEAN :
              /\ disk' = [disk EXCEPT !.results_json = write_ok]
              /\ pc' = IF write_ok THEN "returned" ELSE "propagated"
       ELSE /\ pc' = "returned"
            /\ disk' = disk
    /\ UNCHANGED <<cfg, steps, state, results, cur, dirs_created>>

-----------------------------------------------------------------------------
(* Idle values of the parts a specification does not run *)

KfIdle ==
    /\ kfctx = [is_critical_kf |-> FALSE, max_attempts |-> 1,
                validating |-> FALSE, dry_run |-> FALSE]
    /\ loop = LoopInit
    /\ log = <<>>
    /\ kfres = NoKfRes

PipeIdle ==
    /\ pc = "idle"
    /\ cfg = [dry_run |-> FALSE, nb |-> 1, scenario_json |-> FALSE,
              keyframes_dir |-> FALSE, videos_dir |-> FALSE, max_attempts |-> 1,
              steps |-> [n \in StepNames |-> FALSE]]
    /\ steps = [n \in StepNames |-> FALSE]
    /\ state = StateInit
    /\ results = ResultsInit
    /\ cur = [idx |-> 1, kf |-> "start", stage |-> "none"]
    /\ dirs_created = FALSE
    /\ disk = DiskInit

ZeroCosts == [tokens_input |-> 0, tokens_output |-> 0, calls |-> 0]

LedgerIdle ==
    /\ costs_generation = ZeroCosts
    /\ costs_validation = ZeroCosts
    /\ costs_real = ZeroCosts
    /\ costs_lock = 0
    /\ pending = <<>>

ScriptIdle == sc = [at |-> "idle"]

AskIdle == ask = [at |-> "idle"]

GazeIdle == gz = [at |-> "idle"]

ContentIdle == v7 = [at |-> "idle"]

FaceIdle == fv = [at |-> "idle"]

ReviewIdle == gm = [at |-> "idle"]

StageIdle == sg = [at |-> "idle"]

WorkerIdle == pw = [at |-> "idle"]

SvcIdle ==
    /\ AskIdle /\ GazeIdle /\ ContentIdle /\ FaceIdle /\ ReviewIdle
    /\ StageIdle /\ WorkerIdle

-----------------------------------------------------------------------------
(* Spec: one run of the orchestrator *)

Init ==
    /\ pc = "load"
    /\ cfg \in [dry_run : BOOLEAN, nb : 1..MaxScenes, scenario_json : BOOLEAN,
                keyframes_dir : BOOLEAN, videos_dir : BOOLEAN,
                max_attempts : {MaxCfgAttempts},
                steps : [StepNames -> BOOLEAN]]
    /\ steps = cfg.steps
    /\ state = StateInit
    /\ results = ResultsInit
    /\ cur = [idx |-> 1, kf |-> "start", stage |-> "none"]
    /\ dirs_created = FALSE
    /\ disk = DiskInit
    /\ KfIdle /\ LedgerIdle /\ ScriptIdle /\ SvcIdle

Next ==
    \/ (Load /\ UNCHANGED <<kfVars, ledgerVars, scriptVars, svcVars>>)
    \/ (ScenarioStage /\ UNCHANGED <<kfVars, ledgerVars, scriptVars, svcVars>>)
    \/ (ScenarioSkip /\ UNCHANGED <<kfVars, ledgerVars, scriptVars, svcVars>>)
    \/ (KeyframesSkip /\ UNCHANGED <<kfVars, ledgerVars, scriptVars, svcVars>>)
    \/ (Keyframe /\ UNCHANGED <<kfVars, ledgerVars, scriptVars, svcVars>>)
    \/ (KeyframeRaise /\ UNCHANGED <<kfVars, ledgerVars, scriptVars, svcVars>>)
    \/ (VideosSkip /\ UNCHANGED <<kfVars, ledgerVars, scriptVars, svcVars>>)
    \/ (VideosBegin /\ UNCHANGED <<kfVars, ledgerVars, scriptVars, svcVars>>)
    \/ (VideoScene /\ UNCHANGED <<kfVars, ledgerVars, scriptVars, svcVars>>)
    \/ (VideosEnd /\ UNCHANGED <<kfVars, ledgerVars, scriptVars, svcVars>>)
    \/ (MontageStage /\ UNCHANGED <<kfVars, ledgerVars, scriptVars, svcVars>>)
    \/ (Finalize /\ UNCHANGED <<kfVars, ledgerVars, scriptVars, svcVars>>)
    \/ (Save /\ UNCHANGED <<kfVars, ledgerVars, scriptVars, svcVars>>)

Spec == Init /\ [][Next]_vars

\* The same run under the assumption that every external call returns or times
\* out: run() is one sequential thread, so whichever step is enabled is
\* eventually taken
SpecLive == Init /\ [][Next]_vars /\ WF_vars(Next)

-----------------------------------------------------------------------------
(* SpecKf: one keyframe, attempt by attempt *)

InitKf ==
    /\ kfctx \in KfContexts
    /\ loop = LoopInit
    /\ log = <<>>
    /\ kfres = NoKfRes
    /\ PipeIdle /\ LedgerIdle /\ ScriptIdle /\ SvcIdle

NextKf1 ==
    \/ (Attempt /\ UNCHANGED <<pipeVars, ledgerVars, scriptVars, svcVars>>)
    \/ (Finish /\ UNCHANGED <<pipeVars, ledgerVars, scriptVars, svcVars>>)

SpecKf == InitKf /\ [][NextKf1]_vars

-----------------------------------------------------------------------------
(* The cost ledger of ScenarioGenerator (SpecLedger): the three counter      *)
(* dictionaries of scenario_generator.py:74-77 and the two ways a call to    *)
(* the language model is accounted                                           *)

Threads == 1..MaxThreads
Tokens == 0..MaxTokens
CostFields == {"tokens_input", "tokens_output", "calls"}

NoCall == [at |-> "ready", is_validation |-> FALSE, tokens_in |-> 0, tokens_out |-> 0]

\* counters[...] += tokens_in, tokens_out, 1
AddUsage(counters, tokens_in, tokens_out) ==
    [tokens_input  |-> counters.tokens_input + tokens_in,
     tokens_output |-> counters.tokens_output + tokens_out,
     calls         |-> counters.calls + 1]

\* No worker of a ThreadPoolExecutor is inside a structured call: the legacy
\* methods run on the caller's thread, between the parallel steps
NoStructuredCallRunning == \A t \in Threads : pending[t].at = "ready"

\* _call_openai_structured, scenario_generator.py:2282-2290: the response has
\* arrived, the thread takes _costs_lock and adds the usage to costs_real
StructuredCallTotal(t) ==
    /\ pending[t].at = "ready"
    /\ costs_lock = 0
    /\ costs_real.calls < MaxCalls
    /\ \E v \in BOOLEAN, tokens_in \in Tokens, tokens_out \in Tokens :
          /\ pending' = [pending EXCEPT ![t] =
                            [at |-> "in_lock", is_validation |-> v,
                             tokens_in |-> tokens_in, tokens_out |-> tokens_out]]
          /\ costs_real' = AddUsage(costs_real, tokens_in, tokens_out)
    /\ costs_lock' = t
    /\ UNCHANGED <<costs_generation, costs_validation>>

\* _call_openai_structured, scenario_generator.py:2292-2299: still under the
\* lock, the usage goes to the lane is_validation selects; the lock is released
StructuredCallLane(t) ==
    /\ pending[t].at = "in_lock"
    /\ costs_lock = t
    /\ IF pending[t].is_validation
       THEN /\ costs_validation' =
                   AddUsage(costs_validation, pending[t].tokens_in, pending[t].tokens_out)
            /\ UNCHANGED costs_generation
       ELSE /\ costs_generation' =
                   AddUsage(costs_generation, pending[t].tokens_in, pending[t].tokens_out)
            /\ UNCHANGED costs_validation
    /\ pending' = [pending EXCEPT ![t] = NoCall]
    /\ costs_lock' = 0
    /\ UNCHANGED costs_real

\* _call_openai, scenario_generator.py:2312-2337, the call of the legacy
\* methods (generate_free_scenes, generate_pub_scenario, ...): the usage is
\* added to costs_real only
LegacyCall ==
    /\ NoStructuredCallRunning
    /\ costs_real.calls < MaxCalls
    /\ \E tokens_in \in Tokens, tokens_out \in Tokens :
          costs_real' = AddUsage(costs_real, tokens_in, tokens_out)
    /\ UNCHANGED <<costs_generation, costs_validation, costs_lock, pending>>

InitLedger ==
    /\ PipeIdle /\ KfIdle /\ ScriptIdle /\ SvcIdle
    /\ costs_generation = ZeroCosts
    /\ costs_validation = ZeroCosts
    /\ costs_real = ZeroCosts
    /\ costs_lock = 0
    /\ pending = [t \in Threads |-> NoCall]

NextLedger ==
    \/ \E t \in Threads : StructuredCallTotal(t) /\ UNCHANGED <<pipeVars, kfVars, scriptVars, svcVars>>
    \/ \E t \in Threads : StructuredCallLane(t) /\ UNCHANGED <<pipeVars, kfVars, scriptVars, svcVars>>
    \/ LegacyCall /\ UNCHANGED <<pipeVars, kfVars, scriptVars, svcVars>>

SpecLedger == InitLedger /\ [][NextLedger]_vars

-----------------------------------------------------------------------------
(* The script generator (SpecScript): generate_v7 followed by                *)
(* convert_v7_to_pipeline, as the orchestrator calls them                    *)
(* (pipeline.py:200-222)                                                     *)

\* What a scene of the model's answer carries as "id": a number, or 0 when
\* the record has no "id" key
AnswerIds == 0..(MaxScenes + 1)

RECURSIVE SeqsUpTo(_, _)
SeqsUpTo(S, n) ==
    IF n = 0 THEN {<<>>}
    ELSE LET shorter == SeqsUpTo(S, n - 1)
         IN  shorter \cup {Append(q, x) : q \in {r \in shorter : Len(r) = n - 1}, x \in S}

\* The lists of scenes the language model can answer step 3 with; the empty
\* list is also what a failed call leaves (scenario_generator.py:2310, 1617)
DecoupageAnswers == SeqsUpTo(AnswerIds, MaxScenes + 1)

\* What step 3 stores when its call exhausted its retries: the default
\* structure has "data": {} (scenario_generator.py:2310), _ask returns that
\* dict (scenario_generator.py:2139-2140) and .get("scenes", []) is the empty
\* list (scenario_generator.py:1617)
DefaultScenes == <<>>

\* _mock_v7, scenario_generator.py:2484-2491: nb scenes with ids 1..nb
MockDecoupage(nb) == [i \in 1..nb |-> i]

\* dry-run branch of generate_v7, scenario_generator.py:145-147
MockV7 ==
    /\ sc.at = "generate_v7"
    /\ sc.dry_run
    /\ sc' = [sc EXCEPT !.decoupage = MockDecoupage(sc.nb_scenes), !.at = "convert"]

\* _step3_decoupage_scenes, scenario_generator.py:1593-1617: the list the
\* model answered is stored as it came
Step3Decoupage ==
    /\ sc.at = "generate_v7"
    /\ ~sc.dry_run
    /\ \E exhausted \in BOOLEAN :
          \E d \in (IF exhausted THEN {DefaultScenes} ELSE DecoupageAnswers) :
              sc' = [sc EXCEPT !.decoupage = d, !.step3_default = exhausted,
                               !.at = "step4"]

\* Steps 4 to 11, scenario_generator.py:153-160: they read the decoupage and
\* do not write it; with no scene, params[0] = params_1 raises IndexError
\* (scenario_generator.py:1697-1698)
Steps4To11 ==
    /\ sc.at = "step4"
    /\ sc' = [sc EXCEPT !.at = IF Len(sc.decoupage) = 0 THEN "raised" ELSE "convert"]

\* One record of global_scenario["scenes"], scenario_generator.py:214-238
SceneRecord(decoupage, i) ==
    LET is_last == i = Len(decoupage)
    IN  [id   |-> IF decoupage[i] = 0 THEN i ELSE decoupage[i],
         type |-> IF is_last THEN "ACCOMPLISSEMENT" ELSE "ACTION",
         allows_camera_look |-> is_last]

\* convert_v7_to_pipeline, scenario_generator.py:196-352
ConvertV7ToPipeline ==
    /\ sc.at = "convert"
    /\ sc' = [sc EXCEPT !.scenes = [i \in 1..Len(sc.decoupage) |->
                                        SceneRecord(sc.decoupage, i)],
                        !.at = "done"]

InitScript ==
    /\ PipeIdle /\ KfIdle /\ LedgerIdle /\ SvcIdle
    /\ sc \in [at : {"generate_v7"}, nb_scenes : 1..MaxScenes, dry_run : BOOLEAN,
               decoupage : {<<>>}, step3_default : {FALSE}, scenes : {<<>>}]

NextScript ==
    \/ MockV7 /\ UNCHANGED <<pipeVars, kfVars, ledgerVars, svcVars>>
    \/ Step3Decoupage /\ UNCHANGED <<pipeVars, kfVars, ledgerVars, svcVars>>
    \/ Steps4To11 /\ UNCHANGED <<pipeVars, kfVars, ledgerVars, svcVars>>
    \/ ConvertV7ToPipeline /\ UNCHANGED <<pipeVars, kfVars, ledgerVars, svcVars>>

SpecScript == InitScript /\ [][NextScript]_vars

-----------------------------------------------------------------------------
(* One sub-question of the script generator (SpecAsk): _ask, the retry loop  *)
(* of its call _call_openai_structured and the graduated review _validate    *)

Levels == {"full", "medium", "light", "none"}
Answers == 1..MaxAnswers
DefaultAnswer == 0     \* the "data" / "answer" of the default structure

\* time.sleep(2 ** attempt), scenario_generator.py:2306
Backoff_Linear(attempt) == 2 * attempt
Backoff(attempt) == 2 ^ attempt

\* `if attempt < self.max_retries - 1`, scenario_generator.py:2305
RetriesLeft(attempt, max_retries) == attempt < max_retries - 1

\* do_v1, do_v2, do_v3 of _validate, scenario_generator.py:2180-2182
DoV1(enable_v1, level) == enable_v1 /\ level \in {"full", "medium", "light"}
DoV2(enable_v2, level) == enable_v2 /\ level = "full"
DoV3_FullOnly(enable_v3, level) == enable_v3 /\ level = "full"
DoV3(enable_v3, level) == enable_v3 /\ level \in {"full", "medium"}

\* The review passes _validate runs, in order, scenario_generator.py:2184-2239
PassesRun(a) ==
    (IF DoV1(a.enable_v1, a.level) THEN <<"V1">> ELSE <<>>)
    \o (IF DoV2(a.enable_v2, a.level) THEN <<"V2">> ELSE <<>>)
    \o (IF DoV3(a.enable_v3, a.level) THEN <<"V3">> ELSE <<>>)

\* Where _ask goes once the verdicts are in: it logs them and returns the
\* answer, scenario_generator.py:2160-2166
AfterValidation_RetryOnFail(v1, v2, v3) == IF v3 THEN "return" ELSE "ask"
AfterValidation(v1, v2, v3) == "return"

\* _ask calls _call_openai_structured for the answer, scenario_generator.py:2134-2137;
\* get_api_key raises when the key is missing, scenario_generator.py:2257;
\* with max_retries = 0 the loop body never runs, the call returns None and
\* result.get raises in _ask, scenario_generator.py:2139-2140
AskBegin ==
    /\ ask.at = "ask"
    /\ ask.gen_calls < MaxCalls
    /\ ask' = [ask EXCEPT !.gen_calls = @ + 1, !.attempt = 0,
                          !.at = IF ~ask.api_key \/ ask.max_retries = 0
                                 THEN "raised" ELSE "call"]

\* One iteration of `for attempt in range(self.max_retries)`,
\* scenario_generator.py:2271-2310: the request succeeds and its JSON content
\* is returned, or anything in the try raises; then a sleep and the next
\* attempt, or the default structure after the last one
CallAttempt ==
    /\ ask.at = "call"
    /\ ask.attempt < ask.max_retries
    /\ \E ok \in BOOLEAN :
          IF ok
          THEN \E a \in Answers :
                  ask' = [ask EXCEPT !.http = @ + 1, !.answer = a, !.at = "validate"]
          ELSE IF RetriesLeft(ask.attempt, ask.max_retries)
               THEN ask' = [ask EXCEPT !.http = @ + 1, !.failed = @ + 1,
                                       !.sleeps = Append(@, Backoff(ask.attempt)),
                                       !.attempt = @ + 1]
               ELSE ask' = [ask EXCEPT !.http = @ + 1, !.failed = @ + 1,
                                       !.answer = DefaultAnswer, !.exhausted = TRUE,
                                       !.at = "validate"]

\* The graduated review, scenario_generator.py:2153-2164 and 2168-2241: each
\* pass that runs returns its verdict, a pass that does not run counts as
\* passed
Validate ==
    /\ ask.at = "validate"
    /\ IF ask.level = "none"
       THEN ask' = [ask EXCEPT !.at = "return"]
       ELSE \E v1 \in (IF DoV1(ask.enable_v1, ask.level) THEN BOOLEAN ELSE {TRUE}),
               v2 \in (IF DoV2(ask.enable_v2, ask.level) THEN BOOLEAN ELSE {TRUE}),
               v3 \in (IF DoV3(ask.enable_v3, ask.level) THEN BOOLEAN ELSE {TRUE}) :
               ask' = [ask EXCEPT !.passes = PassesRun(ask),
                                  !.v1 = v1, !.v2 = v2, !.v3 = v3,
                                  !.at = AfterValidation(v1, v2, v3)]

\* `return answer`, scenario_generator.py:2166
AskReturn ==
    /\ ask.at = "return"
    /\ ask' = [ask EXCEPT !.returned = ask.answer, !.at = "done"]

InitAsk ==
    /\ PipeIdle /\ KfIdle /\ LedgerIdle /\ ScriptIdle /\ StageIdle /\ WorkerIdle
    /\ GazeIdle /\ ContentIdle /\ FaceIdle /\ ReviewIdle
    /\ ask \in [at : {"ask"}, level : Levels,
                enable_v1 : BOOLEAN, enable_v2 : BOOLEAN, enable_v3 : BOOLEAN,
                max_retries : 0..MaxRetries, api_key : BOOLEAN,
                gen_calls : {0}, attempt : {0}, http : {0}, failed : {0},
                sleeps : {<<>>}, exhausted : {FALSE}, answer : {DefaultAnswer},
                passes : {<<>>}, v1 : {TRUE}, v2 : {TRUE}, v3 : {TRUE},
                returned : {DefaultAnswer}]

NextAsk ==
    \/ AskBegin /\ UNCHANGED <<pipeVars, kfVars, ledgerVars, scriptVars, stageVars, workerVars, gazeVars, contentVars, faceVars, reviewVars>>
    \/ CallAttempt /\ UNCHANGED <<pipeVars, kfVars, ledgerVars, scriptVars, stageVars, workerVars, gazeVars, contentVars, faceVars, reviewVars>>
    \/ Validate /\ UNCHANGED <<pipeVars, kfVars, ledgerVars, scriptVars, stageVars, workerVars, gazeVars, contentVars, faceVars, reviewVars>>
    \/ AskReturn /\ UNCHANGED <<pipeVars, kfVars, ledgerVars, scriptVars, stageVars, workerVars, gazeVars, contentVars, faceVars, reviewVars>>

SpecAsk == InitAsk /\ [][NextAsk]_vars

-----------------------------------------------------------------------------
(* The gaze rule of a keyframe (SpecGaze): the flag of the scene set by     *)
(* convert_v7_to_pipeline, the flag the attempt loop hands to the image     *)
(* service on every attempt, and the rule the prompt states                 *)

\* "allows_camera_look": is_last, scenario_generator.py:219, 237
SceneAllowsCameraLook(i, n) == i = n

\* "gaze_direction" of start_keyframe and end_keyframe,
\* scenario_generator.py:300, 312
GazeDirection(kf_type, allows_camera_look) ==
    IF kf_type = "end" /\ allows_camera_look THEN "camera" ELSE "away"

\* `random.random() < 0.5` is evaluated only after `is_last and
\* kf_type == "end"`, pipeline.py:657
CameraDraws(is_last, kf_type) ==
    IF is_last /\ kf_type = "end" THEN BOOLEAN ELSE {FALSE}

\* allows_camera_look=(is_last and kf_type == "end" and random.random() < 0.5),
\* pipeline.py:657
AllowsCameraLook(is_last, kf_type, draw) ==
    is_last /\ kf_type = "end" /\ draw

\* camera_look_rule of the prompt, image_generator.py:79-84
CameraLookRule(allows_camera_look) ==
    IF allows_camera_look THEN "look_at_camera" ELSE "never_look_at_camera"

\* The gaze criteria of the validation prompt: every entry of the validation
\* configuration is listed for every keyframe, settings.py:258-259,
\* image_validator.py:261-286
GazeCriteria == {"gaze_correct", "no_camera_look"}

\* The scene's flag and the keyframe's gaze_direction, written by the
\* conversion of the script
GazeConvert ==
    /\ gz.at = "convert"
    /\ gz' = [gz EXCEPT !.gaze_direction =
                           GazeDirection(gz.kf_type,
                                         SceneAllowsCameraLook(gz.idx, gz.total)),
                        !.at = "loop"]

\* The generation call of one attempt and the validation prompt that follows
GazeAttempt ==
    /\ gz.at = "loop"
    /\ gz.attempt < KfMaxAttempts(IsCriticalKf(gz.idx, gz.kf_type, gz.total),
                                  gz.max_attempts)
    /\ \E draw \in CameraDraws(gz.idx = gz.total, gz.kf_type) :
          LET allows == AllowsCameraLook(gz.idx = gz.total, gz.kf_type, draw)
          IN gz' = [gz EXCEPT !.attempt = @ + 1,
                              !.allows = allows,
                              !.rule = CameraLookRule(allows),
                              !.forbidden = @ + (IF allows THEN 0 ELSE 1),
                              !.criteria = GazeCriteria]

\* The loop ends: an attempt was accepted, or the bound is reached
GazeEnd ==
    /\ gz.at = "loop"
    /\ gz.attempt > 0
    /\ gz' = [gz EXCEPT !.at = "done"]

InitGaze ==
    /\ PipeIdle /\ KfIdle /\ LedgerIdle /\ ScriptIdle /\ StageIdle /\ WorkerIdle
    /\ AskIdle /\ ContentIdle /\ FaceIdle /\ ReviewIdle
    /\ \E n \in 1..MaxScenes : \E i \in 1..n :
          gz \in [at : {"convert"}, total : {n}, idx : {i},
                  kf_type : {KfTypes[k] : k \in 1..Len(KfTypes)},
                  max_attempts : 1..MaxCfgAttempts, gaze_direction : {"away"},
                  attempt : {0}, allows : {FALSE},
                  rule : {"none"}, forbidden : {0}, criteria : {{}}]

NextGaze ==
    \/ GazeConvert /\ UNCHANGED <<pipeVars, kfVars, ledgerVars, scriptVars, stageVars, workerVars, askVars, contentVars, faceVars, reviewVars>>
    \/ GazeAttempt /\ UNCHANGED <<pipeVars, kfVars, ledgerVars, scriptVars, stageVars, workerVars, askVars, contentVars, faceVars, reviewVars>>
    \/ GazeEnd /\ UNCHANGED <<pipeVars, kfVars, ledgerVars, scriptVars, stageVars, workerVars, askVars, contentVars, faceVars, reviewVars>>

SpecGaze == InitGaze /\ [][NextGaze]_vars

-----------------------------------------------------------------------------
(* The content of the scenes (SpecContent): the outfit of step 4, the       *)
(* framing of step 9, and what convert_v7_to_pipeline makes of them.  An    *)
(* answer of the language model is a dict: `keys` are the keys it has.      *)

\* Outfit descriptions and item lists the model can answer with
OutfitTexts == {"robe", "costume"}
OutfitItems == {<<"robe">>, <<"costume">>}

\* An answer of step 4 as far as the outfit goes.  A dict without the two
\* keys is also what a failed call leaves ("data": {},
\* scenario_generator.py:2310).
ParamAnswers(texts, items) ==
    {[keys |-> {"tenue_protagoniste", "outfit_items"},
      tenue_protagoniste |-> t, outfit_items |-> it] : t \in texts, it \in items}
    \cup {[keys |-> {"tenue_protagoniste"},
           tenue_protagoniste |-> t, outfit_items |-> <<>>] : t \in texts}
    \cup {[keys |-> {"outfit_items"},
           tenue_protagoniste |-> "", outfit_items |-> it] : it \in items}
    \cup {[keys |-> {}, tenue_protagoniste |-> "", outfit_items |-> <<>>]}

\* dict.get(key, default)
Get(d, key, default) == IF key \in d.keys THEN d[key] ELSE default

\* The outfit reference taken from the first scene's parameters,
\* scenario_generator.py:1660-1664
OutfitReference(params_1) ==
    LET outfit_items == Get(params_1, "outfit_items", <<>>)
        outfit_text  == Get(params_1, "tenue_protagoniste", "")
    IN  [text  |-> outfit_text,
         items |-> IF outfit_items = <<>> /\ outfit_text # ""
                   THEN <<outfit_text>> ELSE outfit_items]

\* Shot types and camera movements the model can answer step 9 with
TypesPlan == {"plan large", "plan moyen", "plan rapproche"}
MouvementsCamera == {"fixe", "handheld"}

CadrageAnswers ==
    {[keys |-> {"type_plan", "mouvement_camera"},
      type_plan |-> t, mouvement_camera |-> c] :
        t \in TypesPlan, c \in MouvementsCamera}
    \cup {[keys |-> {}, type_plan |-> "", mouvement_camera |-> ""]}

\* _map_shot_type, scenario_generator.py:2421-2447
MapShotType(french_type) ==
    CASE french_type = "plan large" -> "wide"
      [] french_type = "plan moyen" -> "medium"
      [] french_type = "plan rapproche" -> "medium"
      [] OTHER -> "medium"

\* _map_camera_movement, scenario_generator.py:2465-2478
MapCameraMovement(french_movement) ==
    CASE french_movement = "fixe" -> "static"
      [] french_movement = "panoramique" -> "slow_pan_left"
      [] french_movement = "handheld" -> "static"
      [] OTHER -> "static"

\* _mock_v7, scenario_generator.py:2492-2499: the same outfit and the same
\* framing for every scene
MockOutfit ==
    [keys |-> {"tenue_protagoniste", "outfit_items"},
     tenue_protagoniste |-> "Tenue decontractee",
     outfit_items |-> <<"t-shirt", "jean">>]

MockCadrage ==
    [keys |-> {"type_plan", "mouvement_camera"},
     type_plan |-> "plan moyen", mouvement_camera |-> "fixe"]

\* dry-run branch of generate_v7, scenario_generator.py:145-147
ContentMock ==
    /\ v7.at = "generate_v7"
    /\ v7.dry_run
    /\ v7' = [v7 EXCEPT
         !.outfit_reference = [text |-> MockOutfit.tenue_protagoniste,
                               items |-> MockOutfit.outfit_items],
         !.parametres_scenes = [i \in 1..v7.n |-> MockOutfit],
         !.cadrages = [i \in 1..v7.n |-> MockCadrage],
         !.at = "convert"]

\* _step4_parametres_scenes, scenario_generator.py:1619-1708: the first
\* scene's answer gives the reference; every later scene is asked with the
\* reference in its prompt and schema and its answer is stored as it came
Step4ParametresScenes ==
    /\ v7.at = "generate_v7"
    /\ ~v7.dry_run
    /\ \E p1 \in ParamAnswers(OutfitTexts, OutfitItems) :
       \E rest \in [2..v7.n -> ParamAnswers(OutfitTexts, OutfitItems)] :
          v7' = [v7 EXCEPT
             !.outfit_reference = OutfitReference(p1),
             !.parametres_scenes =
                 [i \in 1..v7.n |-> IF i = 1 THEN p1 ELSE rest[i]],
             !.at = "step9"]

\* _step9_cadrage, scenario_generator.py:1922-1972: each scene's answer is
\* appended as it came; the earlier choices only enter the next prompt
Step9Cadrage ==
    /\ v7.at = "step9"
    /\ \E cads \in [1..v7.n -> CadrageAnswers] :
          v7' = [v7 EXCEPT !.cadrages = cads, !.at = "convert"]

\* One record of video_scenarios, scenario_generator.py:259-332
VideoScenario(outfit_ref, params, cad) ==
    [outfit |-> Get(params, "tenue_protagoniste", outfit_ref.text),
     outfit_items |-> Get(params, "outfit_items", outfit_ref.items),
     shot_type |-> MapShotType(Get(cad, "type_plan", "plan moyen")),
     camera_movement |-> MapCameraMovement(Get(cad, "mouvement_camera", "fixe"))]

\* convert_v7_to_pipeline, scenario_generator.py:196-352
ContentConvert ==
    /\ v7.at = "convert"
    /\ v7' = [v7 EXCEPT
         !.video_scenarios =
             [i \in 1..v7.n |-> VideoScenario(v7.outfit_reference,
                                              v7.parametres_scenes[i],
                                              v7.cadrages[i])],
         !.at = "done"]

InitContent ==
    /\ PipeIdle /\ KfIdle /\ LedgerIdle /\ ScriptIdle /\ StageIdle /\ WorkerIdle
    /\ AskIdle /\ GazeIdle /\ FaceIdle /\ ReviewIdle
    /\ v7 \in [at : {"generate_v7"}, n : 1..MaxScenes, dry_run : BOOLEAN,
               outfit_reference : {[text |-> "", items |-> <<>>]},
               parametres_scenes : {<<>>}, cadrages : {<<>>},
               video_scenarios : {<<>>}]

NextContent ==
    \/ ContentMock /\ UNCHANGED <<pipeVars, kfVars, ledgerVars, scriptVars, stageVars, workerVars, askVars, gazeVars, faceVars, reviewVars>>
    \/ Step4ParametresScenes /\ UNCHANGED <<pipeVars, kfVars, ledgerVars, scriptVars, stageVars, workerVars, askVars, gazeVars, faceVars, reviewVars>>
    \/ Step9Cadrage /\ UNCHANGED <<pipeVars, kfVars, ledgerVars, scriptVars, stageVars, workerVars, askVars, gazeVars, faceVars, reviewVars>>
    \/ ContentConvert /\ UNCHANGED <<pipeVars, kfVars, ledgerVars, scriptVars, stageVars, workerVars, askVars, gazeVars, faceVars, reviewVars>>

SpecContent == InitContent /\ [][NextContent]_vars

-----------------------------------------------------------------------------
(* The validation of one generated image (SpecFace):                        *)
(* ImageValidator.validate and the FaceValidator.validate it calls.         *)
(* Scores, the threshold and the tolerances are in hundredths.              *)

ShotTypes ==
    {"close_up", "medium", "wide", "far", "back_three_quarter", "unlisted"}

\* "face_tolerance_by_shot", settings.py:331-340; NoTolerance is None
ToleranceByShot ==
    [close_up |-> 20, medium |-> 30, medium_full |-> 40, full |-> 50,
     wide |-> 60, far |-> 60, profile |-> 40,
     back_three_quarter |-> NoTolerance]

\* tolerance_map.get(shot_type, self.tolerance), face_validator.py:98-99
ShotTolerance(shot_type) ==
    IF shot_type \in DOMAIN ToleranceByShot
    THEN ToleranceByShot[shot_type] ELSE DefaultTolerance

\* The similarity scores the two embedding comparisons can return
ScoreLevels == {0, 70, 100}

\* A duplicate check that lets one extra face through
DuplicateDetected_OneSpare(face_count, expected_faces) ==
    face_count > expected_faces + 1

\* `if face_count > expected_faces`, face_validator.py:121
DuplicateDetected(face_count, expected_faces) == face_count > expected_faces

\* The duplicate pre-check is made, face_validator.py:114-120: the detector
\* is installed and initialised, the image is read, and the detector returns
DuplicateCheckRuns(in) ==
    in.expected_faces > 0 /\ in.arcface /\ in.readable /\ ~in.detector_raises

\* cumulative_gap, face_validator.py:137-158: a missing library scores 50
CumulativeGap(in) ==
    LET deepface == IF in.deepface_available THEN in.deepface ELSE 50
        arcface  == IF in.arcface THEN in.arcface_score ELSE 50
        Gap(s)   == IF s < DEFAULT_THRESHOLD THEN DEFAULT_THRESHOLD - s ELSE 0
    IN  Gap(deepface) + Gap(arcface)

\* FaceValidator.validate, face_validator.py:73-196
FaceValidate(in) ==
    LET shot_tolerance == ShotTolerance(in.shot_type) IN
    IF shot_tolerance = NoTolerance
    THEN [passed |-> TRUE, skipped |-> TRUE, counted |-> FALSE,
          duplicate_detected |-> FALSE]
    ELSE IF DuplicateCheckRuns(in)
            /\ DuplicateDetected(in.faces, in.expected_faces)
    THEN [passed |-> FALSE, skipped |-> FALSE, counted |-> TRUE,
          duplicate_detected |-> TRUE]
    ELSE [passed |-> CumulativeGap(in) < shot_tolerance, skipped |-> FALSE,
          counted |-> DuplicateCheckRuns(in), duplicate_detected |-> FALSE]

NoFaceResult ==
    [passed |-> TRUE, skipped |-> FALSE, counted |-> FALSE,
     duplicate_detected |-> FALSE]

\* ImageValidator.validate, image_validator.py:43-148
ImageValidate(in) ==
    IF in.dry_run
    THEN [passed |-> TRUE, face_called |-> FALSE, face |-> NoFaceResult]
    ELSE LET face_called == in.user_photo /\ in.face_validator
             face == IF face_called THEN FaceValidate(in) ELSE NoFaceResult
             gemini_passed == IF in.model THEN in.gemini_passed ELSE TRUE
         IN  [passed |-> IF in.model THEN gemini_passed /\ face.passed
                         ELSE face.passed,
              face_called |-> face_called, face |-> face]

\* One call of the validator on a generated image
ValidateImage ==
    /\ fv.at = "call"
    /\ fv' = [fv EXCEPT !.at = "returned", !.result = ImageValidate(fv.in)]

FaceInputs ==
    [dry_run : BOOLEAN, model : BOOLEAN, gemini_passed : BOOLEAN,
     user_photo : BOOLEAN, face_validator : BOOLEAN,
     shot_type : ShotTypes, expected_faces : 0..1,
     arcface : BOOLEAN, deepface_available : BOOLEAN,
     readable : BOOLEAN, detector_raises : BOOLEAN,
     faces : 0..MaxFaces, deepface : ScoreLevels, arcface_score : ScoreLevels]

InitFace ==
    /\ PipeIdle /\ KfIdle /\ LedgerIdle /\ ScriptIdle /\ StageIdle /\ WorkerIdle
    /\ AskIdle /\ GazeIdle /\ ContentIdle /\ ReviewIdle
    /\ \E in \in FaceInputs :
          fv = [at |-> "call", in |-> in,
                result |-> [passed |-> FALSE, face_called |-> FALSE,
                            face |-> NoFaceResult]]

NextFace ==
    ValidateImage /\ UNCHANGED <<pipeVars, kfVars, ledgerVars, scriptVars, stageVars, workerVars, askVars, gazeVars, contentVars, reviewVars>>

SpecFace == InitFace /\ [][NextFace]_vars

-----------------------------------------------------------------------------
(* SpecIdentity: the validator of one run, from its construction to the      *)
(* validation of one generated keyframe. The identity check needs the        *)
(* FaceValidator, which only ImageValidator.set_run_dir creates              *)

\* What the keyframe stage can pass to the validator, pipeline.py:668-718:
\* the keyframe is not POV, so expected_faces is 1; the validator was built
\* by ImageValidator.__init__, image_validator.py:31, with no FaceValidator
IdentityInputs ==
    {in \in FaceInputs : in.expected_faces = 1 /\ ~in.face_validator}

\* The character-analysis stage, pipeline.py:152-163: it runs when its flag is
\* set and a photo was supplied, and its last statement is the only call of
\* set_run_dir (image_validator.py:39-41) in the pipeline
IdentityAnalyze ==
    /\ fv.at = "analyze"
    /\ fv' = [fv EXCEPT
                !.at = "keyframes",
                !.analyzed = fv.analyze_character /\ fv.in.user_photo,
                !.in.face_validator = fv.analyze_character /\ fv.in.user_photo]

\* One validated attempt of the keyframe stage, pipeline.py:668-721
IdentityValidate ==
    /\ fv.at = "keyframes"
    /\ fv' = [fv EXCEPT !.at = "returned", !.result = ImageValidate(fv.in)]

InitIdentity ==
    /\ PipeIdle /\ KfIdle /\ LedgerIdle /\ ScriptIdle /\ StageIdle /\ WorkerIdle
    /\ AskIdle /\ GazeIdle /\ ContentIdle /\ ReviewIdle
    /\ \E in \in IdentityInputs, analyze_character \in BOOLEAN :
          fv = [at |-> "analyze", analyze_character |-> analyze_character,
                analyzed |-> FALSE, in |-> in,
                result |-> [passed |-> FALSE, face_called |-> FALSE,
                            face |-> NoFaceResult]]

NextIdentity ==
    \/ (IdentityAnalyze /\ UNCHANGED <<pipeVars, kfVars, ledgerVars, scriptVars, stageVars, workerVars, askVars, gazeVars, contentVars, reviewVars>>)
    \/ (IdentityValidate /\ UNCHANGED <<pipeVars, kfVars, ledgerVars, scriptVars, stageVars, workerVars, askVars, gazeVars, contentVars, reviewVars>>)

SpecIdentity == InitIdentity /\ [][NextIdentity]_vars

-----------------------------------------------------------------------------
(* The semantic review of one image (SpecReview):                           *)
(* ImageValidator._validate_with_gemini and the final decision of           *)
(* ImageValidator.validate, applied to two reviews of the same attempt that *)
(* differ only in the identity-adjacent outputs of the reviewer             *)

\* face_criteria_codes, image_validator.py:233
FaceCriteriaCodes == {"face_shape", "face_features", "skin_tone"}

\* A criterion of the rubric that is not about the face, with its minimum
\* in hundredths, settings.py:261
SceneCriterion == "no_text"
SceneCriterionMin == 95

\* A verdict that also requires the reviewer's same-person flag
GeminiPassed_SamePerson(global_score, is_same_person) ==
    global_score >= GlobalMinScore /\ is_same_person

\* passed = global_score >= self.global_min_score, image_validator.py:229;
\* is_same_person is read at 218 and only printed
GeminiPassed(global_score, is_same_person) == global_score >= GlobalMinScore

\* The failures list, image_validator.py:232-242: the face criteria are left
\* out, every other criterion is listed when its score is below its minimum
GeminiFailures(r) ==
    {c \in DOMAIN r.scores :
        c \notin FaceCriteriaCodes /\ r.scores[c] < SceneCriterionMin}

\* final_passed, image_validator.py:103-108
FinalPassed(model, gemini_passed, face_passed) ==
    IF model THEN gemini_passed /\ face_passed ELSE face_passed

\* What ImageValidator.validate returns for the review r of the reviewer and
\* the result face_passed of the identity check, image_validator.py:142-148
ReviewVerdict(r, face_passed) ==
    [passed |-> FinalPassed(TRUE,
                            GeminiPassed(r.global_score, r.is_same_person),
                            face_passed),
     global_score |-> r.global_score,
     failures |-> GeminiFailures(r)]

\* The reviews the vision model can return: a global score, the same-person
\* flag and a score per criterion
Reviews ==
    [global_score : ScoreLevels, is_same_person : BOOLEAN,
     scores : [FaceCriteriaCodes \cup {SceneCriterion} -> {70, 100}]]

\* Two reviews that agree on everything but the identity-adjacent outputs
SameButIdentity(a, b) ==
    /\ a.global_score = b.global_score
    /\ a.scores[SceneCriterion] = b.scores[SceneCriterion]

\* The validator decides on both reviews
ReviewBoth ==
    /\ gm.at = "call"
    /\ gm' = [gm EXCEPT !.at = "returned",
                        !.va = ReviewVerdict(gm.a, gm.face_passed),
                        !.vb = ReviewVerdict(gm.b, gm.face_passed)]

NoVerdict == [passed |-> FALSE, global_score |-> 0, failures |-> {}]

InitReview ==
    /\ PipeIdle /\ KfIdle /\ LedgerIdle /\ ScriptIdle /\ StageIdle /\ WorkerIdle
    /\ AskIdle /\ GazeIdle /\ ContentIdle /\ FaceIdle
    /\ \E a \in Reviews, b \in Reviews, f \in BOOLEAN :
          /\ SameButIdentity(a, b)
          /\ gm = [at |-> "call", a |-> a, b |-> b, face_passed |-> f,
                   va |-> NoVerdict, vb |-> NoVerdict]

NextReview ==
    ReviewBoth /\ UNCHANGED <<pipeVars, kfVars, ledgerVars, scriptVars, stageVars, workerVars, askVars, gazeVars, contentVars, faceVars>>

SpecReview == InitReview /\ [][NextReview]_vars

-----------------------------------------------------------------------------
(* SpecVerdict: one validated attempt whose vision call may fail, answer     *)
(* text without JSON, or answer a review; ImageValidator.validate with a     *)
(* vision model configured, not in dry-run                                   *)

\* What the vision call can do: raise (HTTP error, timeout, no text in the
\* response), return text in which no JSON object parses, or return a review
ReviewResponses ==
    {[kind |-> "call_failed"], [kind |-> "no_json"]}
    \cup {[kind |-> "json", review |-> r] : r \in Reviews}

\* _parse_json, image_validator.py:388-400: the parsed object, or the record
\* with the major issue "Parse error" and the score 0.5
ParseJson(resp) ==
    IF resp.kind = "json"
    THEN [parse_error |-> FALSE, review |-> resp.review]
    ELSE [parse_error |-> TRUE,
          review |-> [global_score |-> 50, is_same_person |-> FALSE,
                      scores |-> <<>>]]

\* A failed review that blocks the attempt with the record of the parser
GeminiSkipped_ParserRecord(issue) ==
    [passed |-> FALSE, global_score |-> 50, failures |-> {},
     major_issues |-> issue, gemini_skipped |-> FALSE]

\* The record returned for a failed call and for a parse error,
\* image_validator.py:183 and 192
GeminiSkipped(issue) ==
    [passed |-> TRUE, global_score |-> 0, failures |-> {},
     major_issues |-> issue, gemini_skipped |-> TRUE]

\* _validate_with_gemini, image_validator.py:150-247
ValidateWithGemini(resp) ==
    IF resp.kind = "call_failed" THEN GeminiSkipped("Gemini error")
    ELSE LET p == ParseJson(resp) IN
         IF p.parse_error THEN GeminiSkipped("Parse error")
         ELSE [passed |-> GeminiPassed(p.review.global_score,
                                       p.review.is_same_person),
               global_score |-> p.review.global_score,
               failures |-> GeminiFailures(p.review),
               major_issues |-> "none", gemini_skipped |-> FALSE]

\* The identity check of the attempt: not made (no photo, no FaceValidator),
\* or made with its verdict
IdentityVerdicts == {"none", "passed", "failed"}

\* ImageValidator.validate with self.model set, image_validator.py:75-148:
\* gemini_result is a non-empty dict, so global_score is the review's score
ValidateVerdict(resp, face) ==
    LET g == ValidateWithGemini(resp)
        face_passed == face # "failed"
    IN  [passed |-> FinalPassed(TRUE, g.passed, face_passed),
         global_score |-> g.global_score,
         failures |-> g.failures \cup (IF face = "failed" THEN {"face"} ELSE {}),
         gemini_skipped |-> g.gemini_skipped]

\* The validator decides on the attempt
ReviewAttempt ==
    /\ gm.at = "call"
    /\ gm' = [gm EXCEPT !.at = "returned",
                        !.out = ValidateVerdict(gm.resp, gm.face)]

InitVerdict ==
    /\ PipeIdle /\ KfIdle /\ LedgerIdle /\ ScriptIdle /\ StageIdle /\ WorkerIdle
    /\ AskIdle /\ GazeIdle /\ ContentIdle /\ FaceIdle
    /\ \E resp \in ReviewResponses, face \in IdentityVerdicts :
          gm = [at |-> "call", resp |-> resp, face |-> face,
                out |-> [passed |-> FALSE, global_score |-> 0, failures |-> {},
                         gemini_skipped |-> FALSE]]

NextVerdict ==
    ReviewAttempt /\ UNCHANGED <<pipeVars, kfVars, ledgerVars, scriptVars, stageVars, workerVars, askVars, gazeVars, contentVars, faceVars>>

SpecVerdict == InitVerdict /\ [][NextVerdict]_vars

-----------------------------------------------------------------------------
(* SpecStages: the stage gates of DreamPipeline.run in mode "scenario", run  *)
(* without preloaded scenario, keyframes or clips.  `work` is the set of    *)
(* stages whose service was called, `executed` is results["steps_executed"] *)

\* The flags of a step map, config/settings.py PRESETS
StageFlags ==
    {"analyze_character", "extract_dream_elements", "generate_palette",
     "generate_scenario", "generate_scenes", "generate_keyframes",
     "validate_keyframes", "generate_videos", "generate_montage"}

\* PRESETS["full"] and PRESETS["scenario_only"]
PresetFull == [f \in StageFlags |-> TRUE]

PresetScenarioOnly ==
    [f \in StageFlags |->
        f \in {"analyze_character", "extract_dream_elements", "generate_palette",
               "generate_scenario", "generate_scenes"}]

\* The names the one-pass script generation reports, pipeline.py:232-234
V7StepNames == {"generate_palette", "generate_scenario", "generate_scenes"}

\* The except clause of run(), pipeline.py:982-987
StageRaise(g) == [g EXCEPT !.at = "returning", !.errors = TRUE]

\* A stage did its work and reported the names `names`
StageDone(g, done, names, next) ==
    [g EXCEPT !.work = @ \cup done, !.executed = @ \cup names, !.at = next]

\* pipeline.py:152-163: character analysis, gated by its flag and the photos
StageAnalyze ==
    /\ sg.at = "analyze"
    /\ sg' = IF sg.steps["analyze_character"] /\ sg.photos
             THEN StageDone([sg EXCEPT !.character = TRUE],
                            {"analyze_character"}, {"analyze_character"}, "extract")
             ELSE [sg EXCEPT !.at = "extract"]

\* pipeline.py:171-181: extraction of the dream elements
StageExtract ==
    /\ sg.at = "extract"
    /\ sg' = IF sg.steps["extract_dream_elements"]
             THEN StageDone([sg EXCEPT !.dream_elements = TRUE],
                            {"extract_dream_elements"}, {"extract_dream_elements"},
                            "scenario")
             ELSE [sg EXCEPT !.at = "scenario"]

\* pipeline.py:193-236: generate_v7 writes palette, scenario and scenes in one
\* pass and the three names are reported together; `scenes` tells whether the
\* converted script has scenes (the mock always has, scenario_generator.py
\* _mock_v7)
StageScenarioV7 ==
    /\ sg.at = "scenario"
    /\ sg.steps["generate_scenario"]
    /\ \E scenes \in (IF sg.dry_run THEN {TRUE} ELSE BOOLEAN) :
          sg' = StageDone([sg EXCEPT !.global_scenario = TRUE,
                                     !.video_scenarios = scenes],
                          V7StepNames, V7StepNames, "keyframes")

\* pipeline.py:334-466 with generate_scenario false: the palette stage reads
\* state.get("dream_elements", {}).get(...), an AttributeError when the
\* elements were not extracted (the key holds None, pipeline.py:102); the
\* scene stage needs a scenario, pipeline.py:423, and there is none
StageLegacy ==
    /\ sg.at = "scenario"
    /\ ~sg.steps["generate_scenario"]
    /\ sg' = IF ~sg.steps["generate_palette"] THEN [sg EXCEPT !.at = "keyframes"]
             ELSE IF ~sg.dream_elements THEN StageRaise(sg)
             ELSE StageDone(sg, {"generate_palette"}, {"generate_palette"},
                            "keyframes")

\* pipeline.py:479-784: the keyframe stage, gated by its flag and the scene
\* list; `kf` tells how many scenes end with both keyframes registered (all
\* of them in a dry run, where every attempt passes); validation is reported
\* when its flag is set, pipeline.py:783-784
StageKeyframes ==
    /\ sg.at = "keyframes"
    /\ IF sg.steps["generate_keyframes"] /\ sg.video_scenarios
       THEN \E kf \in (IF sg.dry_run THEN {"all"} ELSE {"all", "some", "none"}) :
              sg' = StageDone([sg EXCEPT !.keyframes = kf],
                        {"generate_keyframes"} \cup
                            (IF sg.steps["validate_keyframes"]
                             THEN {"validate_keyframes"} ELSE {}),
                        {"generate_keyframes"} \cup
                            (IF sg.steps["validate_keyframes"]
                             THEN {"validate_keyframes"} ELSE {}),
                        "videos")
       ELSE sg' = [sg EXCEPT !.at = "videos"]

\* pipeline.py:790-857: the video stage.  A scene without its two keyframes is
\* recorded as failed without a call; the first scene that has them reaches
\* the call of pipeline.py:820-824, whose outcome is VideoCallOutcomes; a
\* failure of a scene closes the montage flag, pipeline.py:854-857
StageVideos ==
    /\ sg.at = "videos"
    /\ IF ~sg.steps["generate_videos"] THEN sg' = [sg EXCEPT !.at = "montage"]
       ELSE IF ~sg.video_scenarios \/ sg.keyframes = "none"
       THEN sg' = [sg EXCEPT !.at = "montage",
                             !.executed = @ \cup {"generate_videos"},
                             !.failed_videos = sg.video_scenarios,
                             !.errors = @ \/ sg.video_scenarios,
                             !.montage_flag = @ /\ ~sg.video_scenarios]
       ELSE \E out \in VideoCallOutcomes(sg.dry_run) :
              IF out = "raise"
              THEN sg' = StageRaise([sg EXCEPT !.video_calls = TRUE])
              ELSE LET failed == out = "fail" \/ sg.keyframes = "some"
                   IN sg' = [sg EXCEPT !.at = "montage",
                                 !.video_calls = TRUE,
                                 !.work = @ \cup {"generate_videos"},
                                 !.executed = @ \cup {"generate_videos"},
                                 !.video_paths = (out = "ok"),
                                 !.failed_videos = failed,
                                 !.errors = @ \/ failed,
                                 !.montage_flag = @ /\ ~failed]

\* pipeline.py:863-949: the montage, gated by the flag as the video stage left
\* it; without clips or with failed scenes it only records the failure
StageMontage ==
    /\ sg.at = "montage"
    /\ IF ~sg.montage_flag THEN sg' = [sg EXCEPT !.at = "finalize"]
       ELSE IF ~sg.video_paths
       THEN sg' = [sg EXCEPT !.at = "finalize", !.errors = TRUE, !.success = FALSE]
       ELSE IF sg.failed_videos
       THEN sg' = [sg EXCEPT !.at = "finalize", !.success = FALSE]
       ELSE IF sg.dry_run
       THEN sg' = [sg EXCEPT !.at = "finalize", !.success = TRUE,
                             !.executed = @ \cup {"generate_montage"}]
       ELSE \E ok \in BOOLEAN :
              sg' = [sg EXCEPT !.at = "finalize", !.success = ok,
                               !.errors = @ \/ ~ok,
                               !.work = @ \cup {"generate_montage"},
                               !.executed = @ \cup {"generate_montage"}]

\* What get_real_cost of the services add up to, pipeline.py:961-970: nothing
\* is counted in a dry run, where every service returns its mock before any
\* request
StageCosts(g) ==
    IF g.dry_run \/ g.work = {} THEN {"zero"} ELSE {"zero", "spent"}

\* pipeline.py:952-970: the success rule, then the metadata, which reads the
\* title through state.get("global_scenario", {}).get(...), an AttributeError
\* when no scenario was produced (the key holds None, pipeline.py:105), then
\* the costs
StageFinalize ==
    /\ sg.at = "finalize"
    /\ LET g1 == [sg EXCEPT !.success =
                      IF (~sg.montage_flag \/ sg.dry_run) /\ ~sg.errors
                      THEN TRUE ELSE @]
       IN IF ~sg.global_scenario THEN sg' = StageRaise(g1)
          ELSE \E c \in StageCosts(g1) :
                  sg' = [g1 EXCEPT !.at = "returning", !.costs_real = c]

\* pipeline.py:989-998: run returns its result
StageReturn ==
    /\ sg.at = "returning"
    /\ sg' = [sg EXCEPT !.at = "returned"]

InitStages ==
    /\ PipeIdle /\ KfIdle /\ LedgerIdle /\ ScriptIdle /\ WorkerIdle
    /\ AskIdle /\ GazeIdle /\ ContentIdle /\ FaceIdle /\ ReviewIdle
    /\ \E st \in [StageFlags -> BOOLEAN], dry \in BOOLEAN, photos \in BOOLEAN :
          sg = [at |-> "analyze", steps |-> st, dry_run |-> dry,
                photos |-> photos, montage_flag |-> st["generate_montage"],
                character |-> FALSE, dream_elements |-> FALSE,
                global_scenario |-> FALSE, video_scenarios |-> FALSE,
                keyframes |-> "none", video_calls |-> FALSE,
                video_paths |-> FALSE, failed_videos |-> FALSE,
                work |-> {}, executed |-> {}, errors |-> FALSE,
                success |-> FALSE, costs_real |-> "unset"]

NextStages ==
    \/ StageAnalyze /\ UNCHANGED <<pipeVars, kfVars, ledgerVars, scriptVars, askVars, gazeVars, contentVars, faceVars, reviewVars, workerVars>>
    \/ StageExtract /\ UNCHANGED <<pipeVars, kfVars, ledgerVars, scriptVars, askVars, gazeVars, contentVars, faceVars, reviewVars, workerVars>>
    \/ StageScenarioV7 /\ UNCHANGED <<pipeVars, kfVars, ledgerVars, scriptVars, askVars, gazeVars, contentVars, faceVars, reviewVars, workerVars>>
    \/ StageLegacy /\ UNCHANGED <<pipeVars, kfVars, ledgerVars, scriptVars, askVars, gazeVars, contentVars, faceVars, reviewVars, workerVars>>
    \/ StageKeyframes /\ UNCHANGED <<pipeVars, kfVars, ledgerVars, scriptVars, askVars, gazeVars, contentVars, faceVars, reviewVars, workerVars>>
    \/ StageVideos /\ UNCHANGED <<pipeVars, kfVars, ledgerVars, scriptVars, askVars, gazeVars, contentVars, faceVars, reviewVars, workerVars>>
    \/ StageMontage /\ UNCHANGED <<pipeVars, kfVars, ledgerVars, scriptVars, askVars, gazeVars, contentVars, faceVars, reviewVars, workerVars>>
    \/ StageFinalize /\ UNCHANGED <<pipeVars, kfVars, ledgerVars, scriptVars, askVars, gazeVars, contentVars, faceVars, reviewVars, workerVars>>
    \/ StageReturn /\ UNCHANGED <<pipeVars, kfVars, ledgerVars, scriptVars, askVars, gazeVars, contentVars, faceVars, reviewVars, workerVars>>

SpecStages == InitStages /\ [][NextStages]_vars

-----------------------------------------------------------------------------
(* SpecBackend: the run records of one dream in the backend                  *)
(* (src/backend/app/api/routes_dreams.py): generate requests start           *)
(* background threads, which interleave statement by statement with each     *)
(* other and with the deletion of the dream                                  *)

MaxRuns == 2

\* Run(..., status="queued", ...), routes_dreams.py:118
NewRun == [status |-> "queued", wpc |-> "start", video_path |-> FALSE,
           error_message |-> "none"]

\* except Exception as e, routes_dreams.py:98-99
RunFailed(run, e) ==
    [run EXCEPT !.status = "failed", !.error_message = e, !.wpc = "done"]

\* POST /dreams/{id}/generate, routes_dreams.py:101-124: the dream is looked
\* up, the run record is stored and its thread started
BackendGenerate ==
    /\ ask.at = "serving"
    /\ ask.dream_exists
    /\ Len(ask.runs) < MaxRuns
    /\ ask' = [ask EXCEPT !.runs = Append(@, NewRun)]

\* DELETE /dreams/{id}, routes_dreams.py:70-78
BackendDelete ==
    /\ ask.at = "serving"
    /\ ask.dream_exists
    /\ ask' = [ask EXCEPT !.dream_exists = FALSE]

\* The next statement of _background_run for the run r, routes_dreams.py:80-99
BackgroundRun(r) ==
    /\ ask.at = "serving"
    /\ r \in 1..Len(ask.runs)
    /\ LET run == ask.runs[r] IN
       /\ run.wpc # "done"
       /\ CASE run.wpc = "start" ->       \* line 83
                 ask' = [ask EXCEPT !.runs[r] =
                           [run EXCEPT !.status = "analyzing", !.wpc = "plan"]]
            [] run.wpc = "plan" ->        \* lines 84-88: user_dream_dir may raise
                 \E ok \in BOOLEAN :
                   ask' = [ask EXCEPT !.runs[r] =
                             IF ok THEN [run EXCEPT !.status = "scenario",
                                                    !.wpc = "pipeline"]
                             ELSE RunFailed(run, "OSError")]
            [] run.wpc = "pipeline" ->    \* lines 89-90: run_pipeline_dry may raise
                 \E ok \in BOOLEAN :
                   ask' = [ask EXCEPT !.runs[r] =
                             IF ok THEN [run EXCEPT !.status = "generating",
                                                    !.wpc = "assembling"]
                             ELSE RunFailed(run, "pipeline")]
            [] run.wpc = "assembling" ->  \* line 91
                 ask' = [ask EXCEPT !.runs[r] =
                           [run EXCEPT !.status = "assembling", !.wpc = "finalizing"]]
            [] run.wpc = "finalizing" ->  \* lines 92-94
                 ask' = [ask EXCEPT !.runs[r] =
                           [run EXCEPT !.status = "finalizing",
                                       !.video_path = TRUE, !.wpc = "complete"]]
            [] run.wpc = "complete" ->    \* line 95
                 ask' = [ask EXCEPT !.runs[r] =
                           [run EXCEPT !.status = "completed", !.wpc = "dream_status"]]
            [] run.wpc = "dream_status" -> \* line 96: KeyError when the dream is gone
                 ask' = IF ask.dream_exists
                        THEN [ask EXCEPT !.dream_status = "completed",
                                         !.runs[r] = [run EXCEPT !.wpc = "last_run"]]
                        ELSE [ask EXCEPT !.runs[r] = RunFailed(run, "KeyError")]
            [] run.wpc = "last_run" ->    \* line 97: KeyError when the dream is gone
                 ask' = IF ask.dream_exists
                        THEN [ask EXCEPT !.last_run_id = r,
                                         !.runs[r] = [run EXCEPT !.wpc = "done"]]
                        ELSE [ask EXCEPT !.runs[r] = RunFailed(run, "KeyError")]

InitBackend ==
    /\ PipeIdle /\ KfIdle /\ LedgerIdle /\ ScriptIdle /\ StageIdle /\ WorkerIdle
    /\ GazeIdle /\ ContentIdle /\ FaceIdle /\ ReviewIdle
    /\ ask = [at |-> "serving", dream_exists |-> TRUE, dream_status |-> "draft",
              last_run_id |-> 0, runs |-> <<>>]

NextBackend ==
    \/ (BackendGenerate /\ UNCHANGED <<pipeVars, kfVars, ledgerVars, scriptVars, stageVars, workerVars, gazeVars, contentVars, faceVars, reviewVars>>)
    \/ (BackendDelete /\ UNCHANGED <<pipeVars, kfVars, ledgerVars, scriptVars, stageVars, workerVars, gazeVars, contentVars, faceVars, reviewVars>>)
    \/ (\E r \in 1..MaxRuns : BackgroundRun(r) /\ UNCHANGED <<pipeVars, kfVars, ledgerVars, scriptVars, stageVars, workerVars, gazeVars, contentVars, faceVars, reviewVars>>)

SpecBackend == InitBackend /\ [][NextBackend]_vars

-----------------------------------------------------------------------------
(* SpecPose: the two keyframes of one scene in the keyframe stage, with the  *)
(* pub-mode shortcuts: the start keyframe is copied, switched or generated,  *)
(* then the end keyframe is generated, by pose edit when the start is        *)
(* registered                                                                *)

\* `for kf_type in ["start", "end"]`, pipeline.py:509
KfTypeOrder == <<"start", "end">>

\* vs.get("phase", ""), pipeline.py:522
ScenePhases == {"PRE_SWITCH", "DISCOVERY", "EXPLORE", ""}

\* A pose edit decided without looking at the registered start
UsePoseEdit_Unchecked(is_pub_mode, scene_phase, kf_type, start_registered) ==
    /\ is_pub_mode
    /\ scene_phase \in {"DISCOVERY", "EXPLORE"}
    /\ kf_type = "end"

\* use_pose_edit, pipeline.py:622-628; start_registered is the entry
\* state["keyframe_paths"].get(f"start_{sid}")
UsePoseEdit(is_pub_mode, scene_phase, kf_type, start_registered) ==
    /\ is_pub_mode
    /\ scene_phase \in {"DISCOVERY", "EXPLORE"}
    /\ kf_type = "end"
    /\ start_registered # "none"

\* How the start keyframe of the scene can end, pipeline.py:513-600 and
\* 630-780: the image newly registered under start_<sid>, or "kept" when
\* nothing is registered and the entry stays what it was
StartEndings(is_pub_mode, scene_phase, source_exists) ==
    IF is_pub_mode /\ scene_phase = "EXPLORE" /\ source_exists
    THEN {"copied"}
    ELSE IF is_pub_mode /\ scene_phase = "DISCOVERY" /\ source_exists
    THEN {"switched", "kept"}
    ELSE {"generated", "kept"}

\* The start keyframe is processed to its end, pipeline.py:513-600, 630-780
PoseStart ==
    /\ v7.at = "scene"
    /\ KfTypeOrder[v7.kf_i] = "start"
    /\ \E e \in StartEndings(v7.is_pub_mode, v7.scene_phase, v7.source_exists) :
          v7' = [v7 EXCEPT
                   !.kf_i = @ + 1,
                   !.start_finalized = TRUE,
                   !.start_path = IF e = "kept" THEN @ ELSE e]

\* One attempt of the end keyframe, pipeline.py:622-665 and 723-740:
\* use_pose_edit is computed before the loop from the registered start, the
\* source of a pose edit is read from the same entry at every attempt
PoseEndAttempt ==
    /\ v7.at = "scene"
    /\ v7.kf_i <= Len(KfTypeOrder)
    /\ KfTypeOrder[v7.kf_i] = "end"
    /\ LoopRunning(v7.loop, v7.max_attempts)
    /\ LET use_pose_edit == UsePoseEdit(v7.is_pub_mode, v7.scene_phase,
                                        KfTypeOrder[v7.kf_i], v7.start_path)
           call == IF use_pose_edit
                   THEN [kind |-> "pose_edit", source_image |-> v7.start_path,
                         start_finalized |-> v7.start_finalized]
                   ELSE [kind |-> "keyframe", source_image |-> "none",
                         start_finalized |-> v7.start_finalized]
       IN \E accepted \in BOOLEAN :
             v7' = [v7 EXCEPT
                      !.calls = Append(@, call),
                      !.loop = [attempt |-> @.attempt + 1, success |-> accepted]]

\* The end keyframe's loop is over, and with it the scene
PoseEndFinish ==
    /\ v7.at = "scene"
    /\ v7.kf_i <= Len(KfTypeOrder)
    /\ KfTypeOrder[v7.kf_i] = "end"
    /\ ~LoopRunning(v7.loop, v7.max_attempts)
    /\ v7' = [v7 EXCEPT !.at = "done", !.kf_i = @ + 1]

InitPose ==
    /\ PipeIdle /\ KfIdle /\ LedgerIdle /\ ScriptIdle /\ StageIdle /\ WorkerIdle
    /\ AskIdle /\ GazeIdle /\ FaceIdle /\ ReviewIdle
    /\ \E is_pub_mode \in BOOLEAN, scene_phase \in ScenePhases,
          source_exists \in BOOLEAN, preloaded \in BOOLEAN,
          max_attempts \in 1..MaxCfgAttempts :
          v7 = [at |-> "scene", kf_i |-> 1,
                is_pub_mode |-> is_pub_mode, scene_phase |-> scene_phase,
                source_exists |-> source_exists, max_attempts |-> max_attempts,
                start_path |-> IF preloaded THEN "preloaded" ELSE "none",
                start_finalized |-> FALSE,
                loop |-> [attempt |-> 0, success |-> FALSE],
                calls |-> <<>>]

NextPose ==
    \/ (PoseStart /\ UNCHANGED <<pipeVars, kfVars, ledgerVars, scriptVars, stageVars, workerVars, askVars, gazeVars, faceVars, reviewVars>>)
    \/ (PoseEndAttempt /\ UNCHANGED <<pipeVars, kfVars, ledgerVars, scriptVars, stageVars, workerVars, askVars, gazeVars, faceVars, reviewVars>>)
    \/ (PoseEndFinish /\ UNCHANGED <<pipeVars, kfVars, ledgerVars, scriptVars, stageVars, workerVars, askVars, gazeVars, faceVars, reviewVars>>)

SpecPose == InitPose /\ [][NextPose]_vars

-----------------------------------------------------------------------------
(* SpecProgress: the percentages one run hands to its progress callback,     *)
(* in the order of the calls of _emit_progress in DreamPipeline.run          *)

\* The configured mode, pipeline.py:148
Modes == {"scenario", "scenario_pub", "free_scenes"}

\* A per-scene percentage that counts the scenes still to come
VidPct_Remaining(idx, total_scenes) ==
    65 + (27 * (total_scenes - idx)) \div (IF total_scenes > 1 THEN total_scenes ELSE 1)

\* kf_pct = 40 + int(25 * idx / max(total_kf_scenes, 1)), pipeline.py:505
KfPct(idx, total_kf_scenes) ==
    40 + (25 * idx) \div (IF total_kf_scenes > 1 THEN total_kf_scenes ELSE 1)

\* vid_pct = 65 + int(27 * idx / max(total_scenes, 1)), pipeline.py:812
VidPct(idx, total_scenes) ==
    65 + (27 * idx) \div (IF total_scenes > 1 THEN total_scenes ELSE 1)

\* _emit_progress, pipeline.py:57-60: the callback receives the percentage
Emit(g, progress) == [g EXCEPT !.emitted = Append(@, progress)]

\* A stage raised: the except handler of run() emits nothing, pipeline.py:982-987
ProgressRaise ==
    /\ sg.at \notin {"done", "idle"}
    /\ sg' = [sg EXCEPT !.at = "done", !.raised = TRUE]

\* pipeline.py:151
EmitAnalyze ==
    /\ sg.at = "analyze"
    /\ sg' = [Emit(sg, 10) EXCEPT !.at = "extract"]

\* pipeline.py:170
EmitExtract ==
    /\ sg.at = "extract"
    /\ sg' = [Emit(sg, 15) EXCEPT !.at = "scenario"]

\* The v7 branch and the pub branch, pipeline.py:193-198 and 272-276
EmitScenarioV7 ==
    /\ sg.at = "scenario"
    /\ sg.mode \in {"scenario", "scenario_pub"} /\ sg.generate_scenario
    /\ sg' = [Emit(sg, 20) EXCEPT !.at = "keyframes"]

\* The legacy branch, pipeline.py:334-421: palette, scenario, scenes
EmitLegacy ==
    /\ sg.at \in {"scenario", "legacy_scenario", "legacy_scenes"}
    /\ sg.at = "scenario" =>
          ~(sg.mode \in {"scenario", "scenario_pub"} /\ sg.generate_scenario)
    /\ sg' = CASE sg.at = "scenario" ->
                    [Emit(sg, 20) EXCEPT !.at = "legacy_scenario"]
               [] sg.at = "legacy_scenario" ->
                    [Emit(sg, 25) EXCEPT !.at = "legacy_scenes"]
               [] sg.at = "legacy_scenes" ->
                    [Emit(sg, 35) EXCEPT !.at = "keyframes"]

\* pipeline.py:478-482
EmitKeyframes ==
    /\ sg.at = "keyframes"
    /\ sg' = [Emit(sg, 40) EXCEPT
                !.at = IF sg.generate_keyframes /\ sg.n > 0
                       THEN "kf_loop" ELSE "videos",
                !.idx = 0]

\* The head of one iteration of the scene loop, pipeline.py:484-506, and the
\* end of the loop
EmitKeyframeScene ==
    /\ sg.at = "kf_loop"
    /\ IF sg.idx < sg.n
       THEN sg' = [Emit(sg, KfPct(sg.idx, sg.n)) EXCEPT !.idx = @ + 1]
       ELSE sg' = [sg EXCEPT !.at = "videos"]

\* pipeline.py:789-795
EmitVideos ==
    /\ sg.at = "videos"
    /\ sg' = [Emit(sg, 65) EXCEPT
                !.at = IF sg.generate_videos THEN "video_loop" ELSE "montage",
                !.idx = 0]

\* One iteration of the video loop, pipeline.py:797-813: a scene without both
\* keyframes is skipped before the percentage is emitted
EmitVideoScene ==
    /\ sg.at = "video_loop"
    /\ IF sg.idx < sg.n
       THEN \E has_keyframes \in BOOLEAN :
              sg' = IF has_keyframes
                    THEN [Emit(sg, VidPct(sg.idx, sg.n)) EXCEPT !.idx = @ + 1]
                    ELSE [sg EXCEPT !.idx = @ + 1]
       ELSE sg' = [sg EXCEPT !.at = "montage"]

\* pipeline.py:862
EmitMontage ==
    /\ sg.at = "montage"
    /\ sg' = [Emit(sg, 93) EXCEPT !.at = "done"]

InitProgress ==
    /\ PipeIdle /\ KfIdle /\ LedgerIdle /\ ScriptIdle /\ WorkerIdle
    /\ AskIdle /\ GazeIdle /\ ContentIdle /\ FaceIdle /\ ReviewIdle
    /\ \E mode \in Modes, n \in 0..MaxScenes,
          gs \in BOOLEAN, gk \in BOOLEAN, gv \in BOOLEAN :
          sg = [at |-> "analyze", mode |-> mode, n |-> n, idx |-> 0,
                generate_scenario |-> gs, generate_keyframes |-> gk,
                generate_videos |-> gv, emitted |-> <<>>, raised |-> FALSE]

NextProgress ==
    \/ (EmitAnalyze /\ UNCHANGED <<pipeVars, kfVars, ledgerVars, scriptVars, workerVars, askVars, gazeVars, contentVars, faceVars, reviewVars>>)
    \/ (EmitExtract /\ UNCHANGED <<pipeVars, kfVars, ledgerVars, scriptVars, workerVars, askVars, gazeVars, contentVars, faceVars, reviewVars>>)
    \/ (EmitScenarioV7 /\ UNCHANGED <<pipeVars, kfVars, ledgerVars, scriptVars, workerVars, askVars, gazeVars, contentVars, faceVars, reviewVars>>)
    \/ (EmitLegacy /\ UNCHANGED <<pipeVars, kfVars, ledgerVars, scriptVars, workerVars, askVars, gazeVars, contentVars, faceVars, reviewVars>>)
    \/ (EmitKeyframes /\ UNCHANGED <<pipeVars, kfVars, ledgerVars, scriptVars, workerVars, askVars, gazeVars, contentVars, faceVars, reviewVars>>)
    \/ (EmitKeyframeScene /\ UNCHANGED <<pipeVars, kfVars, ledgerVars, scriptVars, workerVars, askVars, gazeVars, contentVars, faceVars, reviewVars>>)
    \/ (EmitVideos /\ UNCHANGED <<pipeVars, kfVars, ledgerVars, scriptVars, workerVars, askVars, gazeVars, contentVars, faceVars, reviewVars>>)
    \/ (EmitVideoScene /\ UNCHANGED <<pipeVars, kfVars, ledgerVars, scriptVars, workerVars, askVars, gazeVars, contentVars, faceVars, reviewVars>>)
    \/ (EmitMontage /\ UNCHANGED <<pipeVars, kfVars, ledgerVars, scriptVars, workerVars, askVars, gazeVars, contentVars, faceVars, reviewVars>>)
    \/ (ProgressRaise /\ UNCHANGED <<pipeVars, kfVars, ledgerVars, scriptVars, workerVars, askVars, gazeVars, contentVars, faceVars, reviewVars>>)

SpecProgress == InitProgress /\ [][NextProgress]_vars

-----------------------------------------------------------------------------
(* SpecWorkers: one parallel per-scene step of generate_v7, as               *)
(* _step5_keyframes runs it (scenario_generator.py:1710-1779): one worker    *)
(* per scene runs _process, which calls _ask; the submitting thread collects *)
(* the futures in completion order.  The counters are the ledger's           *)
(* (costs_real, costs_generation, costs_validation, costs_lock)              *)

\* The workers of a step over n scenes, scenario_generator.py:1773-1774
Workers(n) == 1..n

\* The locals of a worker outside a call: no usage, no counters read
NoUsage == [tokens_in |-> 0, tokens_out |-> 0]

NoRead == [real |-> ZeroCosts, generation |-> ZeroCosts, validation |-> ZeroCosts]

\* The workers run until they return, also while an exception of another
\* worker is leaving the with block of the submitting thread
StepActive == pw.at \in {"running", "unwinding"}

\* with self._costs_lock, scenario_generator.py:2287: the lock can be taken
\* when no thread holds it
LockFree_Unguarded(lock) == TRUE

LockFree(lock) == lock = 0

\* keyframes[idx] = result, scenario_generator.py:1776-1777: the slot is the
\* index the worker returned, not the rank at which its future completed
SlotOf_CompletionRank(idx, rank) == rank

SlotOf(idx, rank) == idx

\* A worker enters _ask: self.audit.subsection(step) and self.audit.log(...),
\* scenario_generator.py:2115-2116, append to the entries of the one AuditLog
\* of the generator (audit_log.py:17-41); `audit` counts the writes of the
\* workers to that list
WorkerAsk(t) ==
    /\ StepActive
    /\ pw.wpc[t] = "start"
    /\ pw' = [pw EXCEPT !.wpc[t] = "request", !.audit = @ + 1]
    /\ UNCHANGED ledgerVars

\* What a worker does once a call of _call_openai_structured has returned.
\* After the generation call _ask writes the answer to the audit log
\* (scenario_generator.py:2151-2152) and, unless the level is "none", the
\* graduated review makes its own call (2155-2158); after the review _ask
\* returns, _process returns (i, result) and the future of the worker
\* completes (scenario_generator.py:1770)
AfterCall(g, t) ==
    IF g.phase[t] = "generation" /\ g.validating
    THEN [g EXCEPT !.audit = @ + 1, !.phase[t] = "validation",
                   !.wpc[t] = "request"]
    ELSE [g EXCEPT !.audit = @ + 1, !.wpc[t] = "done",
                   !.completed = Append(@, t)]

\* _call_openai_structured up to the first half of each `+=`,
\* scenario_generator.py:2257-2299: a response arrives with its usage, the
\* worker takes the lock and reads the counters; or every retry fails and the
\* error record is returned uncounted (2304-2310); or the call raises outside
\* its try (get_api_key, 2257).  The step receives at most MaxCalls responses
WorkerResponse(t) ==
    /\ StepActive
    /\ pw.wpc[t] = "request"
    /\ \/ /\ pw.responses < MaxCalls
          /\ LockFree(costs_lock)
          /\ costs_lock' = t
          /\ \E tokens_in \in Tokens, tokens_out \in Tokens :
                pw' = [pw EXCEPT !.wpc[t] = "write",
                                 !.usage[t] = [tokens_in |-> tokens_in,
                                               tokens_out |-> tokens_out],
                                 !.read[t] = [real |-> costs_real,
                                              generation |-> costs_generation,
                                              validation |-> costs_validation],
                                 !.responses = @ + 1,
                                 !.sum_in = @ + tokens_in,
                                 !.sum_out = @ + tokens_out]
       \/ pw' = AfterCall(pw, t) /\ UNCHANGED costs_lock
       \/ /\ pw' = [pw EXCEPT !.wpc[t] = "raised",
                              !.completed = Append(@, t)]
          /\ UNCHANGED costs_lock
    /\ UNCHANGED <<costs_real, costs_generation, costs_validation, pending>>

\* scenario_generator.py:2287-2299, second half of each `+=`: the worker stores
\* the sums into the total and into the lane of the call, leaves the lock and
\* goes on with _ask
WorkerWrite(t) ==
    /\ StepActive
    /\ pw.wpc[t] = "write"
    /\ costs_real' = AddUsage(pw.read[t].real, pw.usage[t].tokens_in,
                              pw.usage[t].tokens_out)
    /\ IF pw.phase[t] = "validation"
       THEN /\ costs_validation' = AddUsage(pw.read[t].validation,
                                            pw.usage[t].tokens_in,
                                            pw.usage[t].tokens_out)
            /\ UNCHANGED costs_generation
       ELSE /\ costs_generation' = AddUsage(pw.read[t].generation,
                                            pw.usage[t].tokens_in,
                                            pw.usage[t].tokens_out)
            /\ UNCHANGED costs_validation
    /\ costs_lock' = 0
    /\ pw' = AfterCall([pw EXCEPT !.usage[t] = NoUsage, !.read[t] = NoRead], t)
    /\ UNCHANGED pending

\* for future in as_completed(futures), scenario_generator.py:1775-1777: the
\* submitting thread takes the next completed future; future.result() raises
\* what the worker raised, otherwise the result goes to its slot
Collect ==
    /\ pw.at = "running"
    /\ pw.collected < Len(pw.completed)
    /\ LET rank == pw.collected + 1
           t == pw.completed[rank]
       IN IF pw.wpc[t] = "raised"
          THEN pw' = [pw EXCEPT !.at = "unwinding"]
          ELSE pw' = [pw EXCEPT !.collected = rank,
                                !.keyframes[SlotOf(t, rank)] = t]
    /\ UNCHANGED ledgerVars

\* scenario_generator.py:1779, after the with block: every future was
\* collected and the list becomes the input of the next step
StepEnd ==
    /\ pw.at = "running"
    /\ pw.collected = pw.n
    /\ pw' = [pw EXCEPT !.at = "next"]
    /\ UNCHANGED ledgerVars

\* The exception leaves the with block once every worker has ended (the
\* executor shuts down with wait=True); the next step is not started
StepAbort ==
    /\ pw.at = "unwinding"
    /\ \A t \in Workers(pw.n) : pw.wpc[t] \in {"done", "raised"}
    /\ pw' = [pw EXCEPT !.at = "aborted"]
    /\ UNCHANGED ledgerVars

InitWorkers ==
    /\ PipeIdle /\ KfIdle /\ LedgerIdle /\ ScriptIdle /\ StageIdle
    /\ AskIdle /\ GazeIdle /\ ContentIdle /\ FaceIdle /\ ReviewIdle
    /\ \E n \in 1..MaxThreads, validating \in BOOLEAN :
          pw = [at |-> "running", n |-> n, validating |-> validating,
                wpc |-> [t \in Workers(n) |-> "start"],
                phase |-> [t \in Workers(n) |-> "generation"],
                usage |-> [t \in Workers(n) |-> NoUsage],
                read |-> [t \in Workers(n) |-> NoRead],
                responses |-> 0, sum_in |-> 0, sum_out |-> 0,
                completed |-> <<>>, collected |-> 0,
                keyframes |-> [i \in Workers(n) |-> 0],
                audit |-> 0]

NextWorkers ==
    \/ \E t \in Workers(pw.n) : WorkerAsk(t) /\ UNCHANGED <<pipeVars, kfVars, scriptVars, askVars, gazeVars, contentVars, faceVars, reviewVars, stageVars>>
    \/ \E t \in Workers(pw.n) : WorkerResponse(t) /\ UNCHANGED <<pipeVars, kfVars, scriptVars, askVars, gazeVars, contentVars, faceVars, reviewVars, stageVars>>
    \/ \E t \in Workers(pw.n) : WorkerWrite(t) /\ UNCHANGED <<pipeVars, kfVars, scriptVars, askVars, gazeVars, contentVars, faceVars, reviewVars, stageVars>>
    \/ Collect /\ UNCHANGED <<pipeVars, kfVars, scriptVars, askVars, gazeVars, contentVars, faceVars, reviewVars, stageVars>>
    \/ StepEnd /\ UNCHANGED <<pipeVars, kfVars, scriptVars, askVars, gazeVars, contentVars, faceVars, reviewVars, stageVars>>
    \/ StepAbort /\ UNCHANGED <<pipeVars, kfVars, scriptVars, askVars, gazeVars, contentVars, faceVars, reviewVars, stageVars>>

SpecWorkers == InitWorkers /\ [][NextWorkers]_vars

-----------------------------------------------------------------------------
(* SpecCalls: the generation calls of one keyframe, whichever loop makes     *)
(* them: the attempt loop of SpecKf, or, for the start keyframe of the       *)
(* DISCOVERY scene in mode "scenario_pub", the switch loop of                *)
(* pipeline.py:547-596                                                       *)

\* switch_max, pipeline.py:547: max_attempts of the config, 5 without the key
SwitchMaxAttempts == (1..MaxCfgAttempts) \cup {DefaultSwitchAttempts}

\* The keyframe the switch loop makes: never the first start nor the last end
SwitchContexts ==
    [is_critical_kf : {FALSE}, max_attempts : SwitchMaxAttempts,
     validating : BOOLEAN, dry_run : BOOLEAN, switch : {TRUE}]

IsSwitch == "switch" \in DOMAIN kfctx

\* The bound of the loop that generates the keyframe, pipeline.py:550 and 635
AttemptBound == IF IsSwitch THEN kfctx.max_attempts ELSE KfBound

\* One iteration of `for attempt in range(switch_max)`, pipeline.py:550-588: a
\* failed generation goes to the next iteration, a generated image is accepted
\* when it passes the validator or when validation is off, and a rejected one
\* is left in place with no best candidate kept
SwitchStep(l, o, validating) ==
    LET a == l.attempt + 1 IN
    IF ~o.gen THEN [l EXCEPT !.attempt = a]
    ELSE IF validating /\ ~o.passed THEN [l EXCEPT !.attempt = a, !.path_img = a]
    ELSE [l EXCEPT !.attempt = a, !.path_img = a, !.success = TRUE,
                   !.validated = validating]

SwitchAttempt ==
    /\ IsSwitch
    /\ ~kfres.done
    /\ LoopRunning(loop, kfctx.max_attempts)
    /\ \E o \in Outcomes(kfctx.dry_run, kfctx.validating) :
          /\ loop' = SwitchStep(loop, o, kfctx.validating)
          /\ log' = Append(log, o)
    /\ UNCHANGED <<kfctx, kfres>>

\* After the switch loop, pipeline.py:590-596: the keyframe is registered when
\* an attempt was accepted or a file exists, otherwise an error is recorded
SwitchFinish ==
    /\ IsSwitch
    /\ ~kfres.done
    /\ ~LoopRunning(loop, kfctx.max_attempts)
    /\ LET reg == loop.success \/ loop.path_img # 0
       IN kfres' = [NoKfRes EXCEPT
                       !.path_img = loop.path_img,
                       !.registered = reg,
                       !.artifact = IF reg THEN loop.path_img ELSE 0,
                       !.verdict = IF ~reg THEN "none"
                                   ELSE IF ~loop.success THEN "failed"
                                   ELSE IF loop.validated THEN "passed"
                                   ELSE "unvalidated",
                       !.errors = IF reg THEN 0 ELSE 1,
                       !.exhausted = ~loop.success,
                       !.done = TRUE]
    /\ UNCHANGED <<kfctx, loop, log>>

InitCalls ==
    /\ kfctx \in KfContexts \cup SwitchContexts
    /\ loop = LoopInit
    /\ log = <<>>
    /\ kfres = NoKfRes
    /\ PipeIdle /\ LedgerIdle /\ ScriptIdle /\ SvcIdle

NextCalls ==
    \/ (~IsSwitch /\ Attempt /\ UNCHANGED <<pipeVars, ledgerVars, scriptVars, svcVars>>)
    \/ (~IsSwitch /\ Finish /\ UNCHANGED <<pipeVars, ledgerVars, scriptVars, svcVars>>)
    \/ (SwitchAttempt /\ UNCHANGED <<pipeVars, ledgerVars, scriptVars, svcVars>>)
    \/ (SwitchFinish /\ UNCHANGED <<pipeVars, ledgerVars, scriptVars, svcVars>>)

SpecCalls == InitCalls /\ [][NextCalls]_vars

-----------------------------------------------------------------------------
(* Properties of the orchestrator (Spec) *)

RunOver == pc \in {"returned", "propagated"}
Returned == pc = "returned"

CriticalKeys ==
    {k \in Keys : k[1] <= state.video_scenarios
                  /\ IsCriticalKf(k[1], k[2], state.video_scenarios)}

EntriesFor(list, k) ==
    {i \in 1..Len(list) : list[i].scene = k[1] /\ list[i].kf = k[2]}

HasException(r) == \E i \in 1..Len(r.errors) : r.errors[i].kind = "exception"

\* C1: a critical keyframe (first start, last end) that the keyframe stage
\* has processed is never registered from an attempt the validator rejected,
\* and either its registered image comes from an accepted attempt or the
\* error list of the run is not empty.
C1_CriticalNeverDegraded ==
    \A k \in CriticalKeys :
        state.kf_outcome[k] # "pending" =>
            /\ state.keyframe_paths[k] # "failed"
            /\ \/ /\ state.kf_outcome[k] = "accepted"
                  /\ state.keyframe_paths[k] \in {"passed", "unvalidated"}
               \/ results.errors # <<>>

\* C1 witness: the keyframe stage has ended and a validated critical keyframe
\* exhausted its attempts without a passing one
C1_Witness ==
    /\ pc = "videos"
    /\ steps.validate_keyframes
    /\ \E k \in CriticalKeys :
          /\ state.kf_outcome[k] = "critical_failed"
          /\ state.keyframe_paths[k] = "none"

\* C2 (as claimed): whenever a critical keyframe ended its attempts without a
\* passing attempt, the result the run returns has success = false.
C2_CriticalFailureFailsRun ==
    (Returned /\ \E k \in CriticalKeys : state.kf_outcome[k] = "critical_failed")
        => ~results.success

\* C3 (as claimed): a non-critical keyframe that exhausted its attempts
\* without a passing one has exactly one registered artifact, a rejected
\* attempt's image, exactly one warning and no error entry.
C3_DegradedOneArtifactOneWarning ==
    \A k \in Keys :
        state.kf_outcome[k] \in {"degraded", "no_image"} =>
            /\ state.keyframe_paths[k] = "failed"
            /\ Cardinality(EntriesFor(results.warnings, k)) = 1
            /\ EntriesFor(results.errors, k) = {}

ClipScenes == {state.video_paths[i] : i \in 1..Len(state.video_paths)}

\* C4 (as claimed): at the end of every run each scene with a clip in the
\* clip list has both its keyframes registered.
C4_ClipsHaveKeyframes ==
    RunOver => \A i \in ClipScenes : HasBothKeyframes(state, i)

\* C4 (amended): at the end of every run whose video stage was executed, each
\* scene with a clip in the clip list has both its keyframes registered.
C4_StageClipsHaveKeyframes ==
    (RunOver /\ cur.stage = "videos") =>
        \A i \in ClipScenes : HasBothKeyframes(state, i)

\* C4 witness: the video stage ran over preloaded clips and left a scene
\* without keyframes out of the clip list
C4_Witness ==
    /\ Returned
    /\ cur.stage = "videos" /\ cfg.videos_dir
    /\ \E i \in 1..state.video_scenarios :
          /\ ~HasBothKeyframes(state, i)
          /\ i \notin ClipScenes
          /\ \E j \in 1..Len(state.failed_videos) : state.failed_videos[j] = i

\* C5: once the video stage has left a scene without its clip and the caller
\* had requested the montage, the concatenation utility is never called, no
\* final video is produced and the success flag is false.
C5_MissingClipDisablesMontage ==
    (state.failed_videos # <<>> /\ cfg.steps.generate_montage) =>
        /\ disk.concat_calls = 0
        /\ ~results.final_video
        /\ ~results.success

\* C5 witness: a run with the montage requested returned after its video
\* stage recorded a failed scene
C5_Witness ==
    /\ Returned
    /\ cfg.steps.generate_montage
    /\ state.failed_videos # <<>>
    /\ \E i \in 1..Len(results.steps_executed) :
          results.steps_executed[i] = "generate_videos"

FirstStart == <<1, "start">>

\* The critical-keyframe-failure entries of the error list for keyframe k
CriticalEntries(k) ==
    {i \in EntriesFor(results.errors, k) : results.errors[i].kind = "critical_kf"}

\* C14 (as claimed): if the first scene's start keyframe never passed within
\* its attempt bound, the error list of the returned result holds exactly one
\* critical-keyframe-failure entry for that keyframe and the result has no
\* final video.
C14_FirstStartFailureNoFinalVideo ==
    (Returned /\ state.kf_outcome[FirstStart] = "critical_failed") =>
        /\ Cardinality(CriticalEntries(FirstStart)) = 1
        /\ ~results.final_video

\* C14 witness: a run that returned with one critical-keyframe-failure entry
\* for the first start keyframe and a final video
C14_Witness ==
    /\ Returned
    /\ state.kf_outcome[FirstStart] = "critical_failed"
    /\ Cardinality(CriticalEntries(FirstStart)) = 1
    /\ results.final_video

\* C6 (as claimed): if a stage raised during the run, the returned result has
\* success = false.
C6_ExceptionFailsRun ==
    (RunOver /\ HasException(results)) => ~results.success

\* C7 (as claimed): run() never lets an exception through to its caller.
C7_NeverPropagates == pc # "propagated"

\* C33 (as claimed): every run eventually returns a result, provided every
\* external call returns or times out.
C33_EventuallyReturns == <>Returned

\* Every run ends: it returns a result or leaves run() with an exception
C33_RunEnds == <>RunOver

\* C33 witness: a run that ended without returning a result
C33_Witness ==
    /\ pc = "propagated"
    /\ dirs_created /\ ~disk.results_json

\* C36 (as claimed): in every returned result, success = true implies that
\* the error list is empty.
C36_SuccessImpliesNoErrors ==
    Returned => (results.success => results.errors = <<>>)

\* C36 witness: a run returned success = true after a successful montage, with
\* an error recorded by an earlier stage
C36_Witness ==
    /\ Returned
    /\ results.success /\ results.final_video
    /\ results.errors # <<>>
    /\ ~HasException(results)

\* C39 (as claimed): after run returns, every stage flag has the value it had
\* at invocation.
C39_StageFlagsUntouched ==
    Returned => steps = cfg.steps

\* C39 witness: a run returned after a scene's video failed, with the caller's
\* montage flag cleared
C39_Witness ==
    /\ Returned
    /\ state.failed_videos # <<>>
    /\ cfg.steps.generate_montage /\ ~steps.generate_montage

-----------------------------------------------------------------------------
(* Properties of the attempt loop (SpecKf) *)

\* The attempts the validator scored
ScoredAttempts == {i \in 1..Len(log) : log[i].gen /\ kfctx.validating}

\* The highest-scoring scored attempt, the earliest one on ties
IsBestAttempt(i) ==
    /\ i \in ScoredAttempts
    /\ \A j \in ScoredAttempts :
          \/ log[j].score < log[i].score
          \/ (log[j].score = log[i].score /\ i <= j)

Accepted(i) == log[i].gen /\ (kfctx.validating => log[i].passed)

\* C13: if attempt k of a non-critical keyframe fails acceptance and attempt
\* k+1 passes, no later attempt is made, and the end of the loop registers
\* attempt k+1's image and records no warning and no error for the keyframe.
C13_PassAfterFailureIsClean ==
    \A k \in 1..(Len(log) - 1) :
        (~kfctx.is_critical_kf /\ ~Accepted(k) /\ Accepted(k + 1)) =>
            /\ Len(log) = k + 1
            /\ loop.success
            /\ kfres.done =>
                  /\ kfres.registered
                  /\ kfres.artifact = k + 1
                  /\ kfres.warnings = 0
                  /\ kfres.errors = 0

\* C13 witness: a validated non-critical keyframe rejected at attempt 1 and
\* passed at attempt 2, after the end of its loop
C13_Witness ==
    /\ kfres.done /\ ~kfctx.is_critical_kf /\ kfctx.validating
    /\ Len(log) = 2
    /\ log[1].gen /\ ~log[1].passed
    /\ log[2].gen /\ log[2].passed
    /\ kfres.artifact = 2

-----------------------------------------------------------------------------
(* Properties of the cost ledger (SpecLedger) *)

\* C8 (as claimed): whenever no thread is inside the locked update, each total
\* counter of the ledger (calls, input tokens, output tokens) equals the sum
\* of the generation-lane and the review-lane counter.
C8_TotalIsSumOfLanes ==
    costs_lock = 0 =>
        \A f \in CostFields : costs_real[f] = costs_generation[f] + costs_validation[f]

-----------------------------------------------------------------------------
(* Properties of the script generator (SpecScript) *)

\* C10 (as claimed): when N scenes are requested the script generator returns
\* exactly N scene records with pairwise distinct identifiers, and exactly
\* the last one is flagged as the climax.
C10_ExactlyNDistinctLastClimax ==
    sc.at = "done" =>
        /\ Len(sc.scenes) = sc.nb_scenes
        /\ \A i, j \in 1..Len(sc.scenes) : i # j => sc.scenes[i].id # sc.scenes[j].id
        /\ \A i \in 1..Len(sc.scenes) :
              sc.scenes[i].allows_camera_look <=> i = Len(sc.scenes)

\* C11 (as claimed): when the scene-breakdown sub-question exhausted its
\* retries and yielded the default structure, script generation does not abort
\* with an exception.
C11_LostAnswerNeverAborts ==
    sc.at # "idle" => (sc.step3_default => sc.at # "raised")

-----------------------------------------------------------------------------
(* Properties of one sub-question (SpecAsk) *)

AskActive == ask.at # "idle"

RECURSIVE Pow2(_)
Pow2(k) == IF k = 0 THEN 1 ELSE 2 * Pow2(k - 1)

\* C12: a sub-question call makes at most max_retries attempts, sleeps 2^k
\* seconds after its k-th failed attempt (k = 0, 1, ...) when another attempt
\* follows, and after the last failed attempt returns the default structure
\* instead of raising.
C12_BoundedRetriesBackoff ==
    AskActive =>
        /\ ask.http <= ask.max_retries
        /\ Len(ask.sleeps) = (IF ask.exhausted THEN ask.failed - 1 ELSE ask.failed)
        /\ \A i \in 1..Len(ask.sleeps) : ask.sleeps[i] = Pow2(i - 1)
        /\ ask.exhausted <=> (ask.max_retries > 0 /\ ask.failed = ask.max_retries)
        /\ ask.exhausted => (ask.answer = DefaultAnswer /\ ask.at # "raised")

\* C12 witness: a call failed three times, slept 1 s and 2 s between the
\* attempts and returned the default structure
C12_Witness ==
    /\ AskActive
    /\ ask.exhausted /\ ask.http = 3
    /\ ask.sleeps = <<1, 2>>
    /\ ask.at = "done" /\ ask.returned = DefaultAnswer

AllLevelsEnabled == ask.enable_v1 /\ ask.enable_v2 /\ ask.enable_v3

Reviewed == AskActive /\ ask.at \in {"return", "done"}

\* C16 (as claimed): with all reviewer levels enabled, 'light' runs only the
\* criterion check (V1), 'medium' runs V1 plus the global-coherence check (V2)
\* and no arbiter pass (V3), and 'full' runs V1, V2 and V3.
C16_MediumRunsCoherenceCheck ==
    (Reviewed /\ AllLevelsEnabled) =>
        /\ ask.level = "light" => ask.passes = <<"V1">>
        /\ ask.level = "medium" => ask.passes = <<"V1", "V2">>
        /\ ask.level = "full" => ask.passes = <<"V1", "V2", "V3">>

\* C16 (amended): with all reviewer levels enabled, 'light' runs only the
\* criterion check (V1), 'medium' runs V1 plus the arbiter pass (V3) and no
\* global-coherence check (V2), and 'full' runs V1, V2 and V3; the
\* global-coherence check runs only at level 'full'.
C16_MediumRunsArbiter ==
    (Reviewed /\ AllLevelsEnabled) =>
        /\ ask.level = "light" => ask.passes = <<"V1">>
        /\ ask.level = "medium" => ask.passes = <<"V1", "V3">>
        /\ ask.level = "full" => ask.passes = <<"V1", "V2", "V3">>
        /\ ask.level = "none" => ask.passes = <<>>

\* C16 witness: a sub-question reviewed at level 'medium' with every level
\* enabled, whose arbiter pass was run and flagged the answer
C16_Witness ==
    /\ Reviewed /\ AllLevelsEnabled
    /\ ask.level = "medium"
    /\ ask.passes = <<"V1", "V3">> /\ ~ask.v3

\* C17: the answer _ask returns is the one its single generation call
\* produced, and that call is made exactly once, whatever the verdicts of the
\* review passes.
C17_VerdictNeverRegenerates ==
    AskActive =>
        /\ ask.gen_calls <= 1
        /\ ask.at \in {"validate", "return", "done"} => ask.gen_calls = 1
        /\ ask.at = "done" => ask.returned = ask.answer

\* C17 witness: _ask returned a model answer that every review pass of level
\* 'full' had flagged
C17_Witness ==
    /\ AskActive /\ ask.at = "done"
    /\ ask.level = "full" /\ AllLevelsEnabled
    /\ ~ask.v1 /\ ~ask.v2 /\ ~ask.v3
    /\ ask.returned \in Answers /\ ask.gen_calls = 1

-----------------------------------------------------------------------------
(* Properties of the gaze rule (SpecGaze) *)

GazeClimaxEnd == gz.idx = gz.total /\ gz.kf_type = "end"

\* C15: every generation attempt of the climax scene's end keyframe permits
\* camera-facing gaze; every attempt of any other keyframe forbids it in the
\* prompt and the validation lists the no-camera-look criterion.
C15_ClimaxEndAlwaysPermitsCamera ==
    (gz.at # "idle" /\ gz.attempt > 0) =>
        IF GazeClimaxEnd
        THEN gz.allows /\ gz.rule = "look_at_camera"
        ELSE /\ ~gz.allows
             /\ gz.rule = "never_look_at_camera"
             /\ "no_camera_look" \in gz.criteria

\* An attempt of the climax end keyframe whose prompt forbids the camera
C15_Witness ==
    /\ gz.at # "idle" /\ gz.attempt > 0 /\ GazeClimaxEnd
    /\ gz.gaze_direction = "camera"
    /\ gz.rule = "never_look_at_camera"

-----------------------------------------------------------------------------
(* Properties of the scene content (SpecContent) *)

\* C18 (as claimed): for every scene after the first, the outfit text and the
\* outfit items of the scene's record in the converted script equal the first
\* scene's outfit reference, whatever the model answered for that scene.
C18_LaterScenesWearReference ==
    v7.at = "done" =>
        \A i \in 2..v7.n :
            /\ v7.video_scenarios[i].outfit = v7.outfit_reference.text
            /\ v7.video_scenarios[i].outfit_items = v7.outfit_reference.items

\* C18 witness: a converted script whose second scene carries an outfit that
\* is not the reference
C18_Witness ==
    /\ v7.at = "done" /\ v7.n >= 2
    /\ v7.outfit_reference.text = "robe"
    /\ v7.video_scenarios[2].outfit = "costume"

\* C19 (as claimed): in every produced script no two adjacent scenes have both
\* the same shot type and the same camera movement.
C19_AdjacentFramingDiffers ==
    v7.at = "done" =>
        \A i \in 1..(v7.n - 1) :
            ~ /\ v7.video_scenarios[i].shot_type = v7.video_scenarios[i + 1].shot_type
              /\ v7.video_scenarios[i].camera_movement
                    = v7.video_scenarios[i + 1].camera_movement

\* C19 witness: a script generated by the language model in which scenes 1 and
\* 2 were answered with the same shot type and the same camera movement
C19_Witness ==
    /\ v7.at = "done" /\ v7.n >= 2 /\ ~v7.dry_run
    /\ v7.cadrages[1].keys # {}
    /\ v7.cadrages[1] = v7.cadrages[2]
    /\ v7.video_scenarios[1].shot_type = v7.video_scenarios[2].shot_type
    /\ v7.video_scenarios[1].camera_movement = v7.video_scenarios[2].camera_movement

-----------------------------------------------------------------------------
(* Properties of the image validation (SpecFace) *)

\* The image holds more faces than the scene expects
MoreFacesThanExpected == fv.in.faces > fv.in.expected_faces

\* C20 (as claimed): an attempt validated against a reference photo, whose
\* image holds more faces than the scene expects and whose face detector is
\* usable, is never accepted, whatever its similarity scores and whatever its
\* shot type.
C20_ExtraFacesNeverAccepted ==
    (fv.at = "returned" /\ ~fv.in.dry_run
        /\ fv.in.user_photo /\ fv.in.face_validator
        /\ fv.in.expected_faces > 0
        /\ fv.in.arcface /\ fv.in.readable /\ ~fv.in.detector_raises
        /\ MoreFacesThanExpected)
    => ~fv.result.passed

\* C20 (amended): an attempt in which the duplicate check counted more faces
\* than the scene expects is never accepted, whatever its similarity scores,
\* for every shot type that has a tolerance; a shot type without tolerance
\* skips the identity check, the duplicate check included.
C20_CountedExtraFacesNeverAccepted ==
    (fv.at = "returned" /\ ~fv.in.dry_run
        /\ fv.in.user_photo /\ fv.in.face_validator
        /\ fv.in.expected_faces > 0
        /\ fv.in.arcface /\ fv.in.readable /\ ~fv.in.detector_raises
        /\ ShotTolerance(fv.in.shot_type) # NoTolerance
        /\ MoreFacesThanExpected)
    => /\ ~fv.result.passed
       /\ fv.result.face.duplicate_detected

\* C20 witness: two faces where one is expected, both similarity scores at
\* their maximum, the semantic check passed, and the attempt rejected
C20_Witness ==
    /\ fv.at = "returned"
    /\ fv.in.faces = 2 /\ fv.in.expected_faces = 1
    /\ fv.in.deepface = 100 /\ fv.in.arcface_score = 100
    /\ fv.in.model /\ fv.in.gemini_passed
    /\ fv.result.face.counted
    /\ fv.result.face.duplicate_detected
    /\ ~fv.result.passed

\* The shot types the specification lets skip the identity check
DistantOrBackFacing == {"far", "back_three_quarter"}

\* C21 (as claimed): the identity check is skipped, reported as passing with
\* no face compared, exactly for the distant ("far") and the back-facing shot
\* types; for every other shot type an attempt passes the identity check only
\* if its cumulative gap is strictly below the tolerance of its shot type.
C21_SkipExactlyFarAndBack ==
    (fv.at = "returned" /\ fv.result.face_called) =>
        /\ fv.result.face.skipped <=> fv.in.shot_type \in DistantOrBackFacing
        /\ (~fv.result.face.skipped /\ fv.result.face.passed) =>
              CumulativeGap(fv.in) < ShotTolerance(fv.in.shot_type)

\* C21 witness: a "far" shot whose faces were compared and rejected
C21_Witness ==
    /\ fv.at = "returned" /\ fv.result.face_called
    /\ fv.in.shot_type = "far"
    /\ ~fv.result.face.skipped
    /\ ~fv.result.face.duplicate_detected
    /\ ~fv.result.face.passed

-----------------------------------------------------------------------------
(* Properties of the semantic review (SpecReview) *)

\* C22: two attempts that differ only in the reviewer's identity-adjacent
\* outputs (the same-person flag and the scores of face shape, face features
\* and skin tone), with the same global score and the same result of the
\* identity check, receive the same verdict.
C22_VerdictIgnoresIdentityOutputs ==
    gm.at = "returned" => gm.va = gm.vb

\* C22 witness: two reviews that differ in the same-person flag and in every
\* face score, the attempt accepted although the first review denies the
\* person and scores the face low
C22_Witness ==
    /\ gm.at = "returned"
    /\ ~gm.a.is_same_person /\ gm.b.is_same_person
    /\ \A c \in FaceCriteriaCodes : gm.a.scores[c] = 70 /\ gm.b.scores[c] = 100
    /\ gm.va.passed

-----------------------------------------------------------------------------
(* Properties of the warnings of a run (Spec) *)

\* The run returned with keyframe validation enabled and with an empty
\* warning list and an empty error list
CleanValidatedRun ==
    /\ Returned
    /\ steps.validate_keyframes
    /\ results.warnings = <<>>
    /\ results.errors = <<>>

\* C25 (as claimed): every degraded-but-continuing outcome adds a warning: if
\* a run returns with no warning and no error while keyframe validation is
\* enabled, every keyframe the keyframe stage registered comes from an
\* attempt that passed acceptance.
C25_CleanRunOnlyAcceptedKeyframes ==
    CleanValidatedRun =>
        \A k \in Keys :
            (state.kf_outcome[k] # "pending" /\ state.keyframe_paths[k] # "none")
                => /\ state.kf_outcome[k] = "accepted"
                   /\ state.keyframe_paths[k] = "passed"

\* C25 divergence: a run returned without warning or error, and one of its
\* keyframes is registered from the best of its rejected attempts
C25_Witness ==
    /\ CleanValidatedRun
    /\ \E k \in Keys :
          /\ state.kf_outcome[k] = "degraded"
          /\ state.keyframe_paths[k] = "failed"

-----------------------------------------------------------------------------
(* Properties of the video stage (Spec) *)

\* The scenes the loop of the video stage has entered with both keyframes,
\* pipeline.py:796-802
VideoScenesTried ==
    {i \in 1..state.video_scenarios :
        /\ cur.stage = "videos" /\ i <= cur.idx
        /\ HasBothKeyframes(state, i)}

FailedScenes == {state.failed_videos[i] : i \in 1..Len(state.failed_videos)}

\* C27 (as claimed): for every scene that has both keyframes the video service
\* is called at least once and at most MAX_VIDEO_ATTEMPTS times, and the scene
\* ends in exactly one of the clip list and the failed-scene list.
C27_TriedSceneEndsInOneList ==
    Returned =>
        /\ \A i \in VideoScenesTried : (i \in ClipScenes) # (i \in FailedScenes)
        /\ disk.video_calls >= Cardinality(VideoScenesTried)
        /\ disk.video_calls <= MAX_VIDEO_ATTEMPTS * Cardinality(VideoScenesTried)

\* C27 divergence: the run returned after the video stage called the service
\* once for a scene with both keyframes, and the scene is in neither list
C27_Witness ==
    /\ Returned
    /\ disk.video_calls = 1
    /\ \E i \in VideoScenesTried : i \notin ClipScenes /\ i \notin FailedScenes

-----------------------------------------------------------------------------
(* Properties of the stage gates (SpecStages) *)

\* C23 (as claimed): a stage whose configuration flag is false is skipped
\* entirely: when the run returns, no service of that stage was called and its
\* name is not in the list of executed stages.
C23_FalseFlagStageSkipped ==
    sg.at = "returned" =>
        \A f \in StageFlags :
            ~sg.steps[f] => f \notin sg.executed /\ f \notin sg.work

\* C23 divergence: the palette flag is false, the scenario flag is true, and
\* the returned run wrote the palette and lists generate_palette as executed
C23_Witness ==
    /\ sg.at = "returned"
    /\ sg.steps["generate_scenario"] /\ ~sg.steps["generate_palette"]
    /\ "generate_palette" \in sg.work
    /\ "generate_palette" \in sg.executed

\* The stage names test 1 of test_dry_run.py expects
DryRunFullStages ==
    {"analyze_character", "extract_dream_elements", "generate_palette",
     "generate_scenario", "generate_scenes", "generate_keyframes",
     "generate_videos"}

\* The run of test 1 of test_dry_run.py has returned: dry run, full preset,
\* photos of the user given
DryRunFullReturned ==
    /\ sg.at = "returned"
    /\ sg.dry_run /\ sg.photos
    /\ sg.steps = PresetFull

\* C24 (as claimed): a dry run with the full preset returns success = true,
\* its list of executed stages contains the seven stage names from
\* analyze_character to generate_videos, and every component cost of the
\* result is 0.
C24_DryRunFullPresetSucceeds ==
    DryRunFullReturned =>
        /\ sg.success
        /\ DryRunFullStages \subseteq sg.executed
        /\ sg.costs_real = "zero"

\* C24 divergence: the dry run with the full preset returned after the call of
\* the video service raised: no success, generate_videos not executed, and the
\* costs of the result never written
C24_Witness ==
    /\ DryRunFullReturned
    /\ sg.video_calls /\ sg.errors
    /\ ~sg.success
    /\ "generate_videos" \notin sg.executed
    /\ sg.costs_real = "unset"

-----------------------------------------------------------------------------
(* Properties of the attempt bounds (SpecKf) *)

\* C26 (as claimed): under every configuration the attempt bound of a
\* critical keyframe is strictly greater than the attempt bound of an
\* ordinary keyframe.
C26_CriticalBoundStrictlyHigher ==
    KfMaxAttempts(TRUE, kfctx.max_attempts) >
        KfMaxAttempts(FALSE, kfctx.max_attempts)

\* C26 divergence: an ordinary keyframe, under a config without max_attempts,
\* has used as many attempts as a critical keyframe is allowed
C26_Witness ==
    /\ ~kfctx.is_critical_kf
    /\ kfctx.max_attempts = DefaultMaxAttempts
    /\ kfres.done
    /\ Len(log) = CriticalAttempts

-----------------------------------------------------------------------------
(* Properties of the parallel steps (SpecWorkers) *)

\* C28: when a per-scene parallel step hands its list to the next step, the
\* list has one non-empty entry per scene, entry i is the result of scene i
\* whatever the order in which the workers completed, and every worker of the
\* step has finished.
C28_ResultsReassembledByScene ==
    pw.at = "next" =>
        \A i \in Workers(pw.n) :
            /\ pw.keyframes[i] = i
            /\ pw.wpc[i] = "done"

\* C28 witness: a step over several scenes ended although the worker of the
\* last scene completed first
C28_Witness ==
    /\ pw.at = "next"
    /\ pw.n >= 2
    /\ pw.completed[1] = pw.n
    /\ pw.keyframes[pw.n] = pw.n

\* C29: under every interleaving of the workers, once all of them have
\* finished, the call counter of the ledger equals the number of responses
\* received and its token counters equal the sums of the reported usages, in
\* the total and across the two lanes: no update is lost.
C29_NoLostUpdate ==
    pw.at \in {"next", "aborted"} =>
        /\ costs_real.calls = pw.responses
        /\ costs_real.tokens_input = pw.sum_in
        /\ costs_real.tokens_output = pw.sum_out
        /\ costs_generation.calls + costs_validation.calls = pw.responses
        /\ costs_generation.tokens_input + costs_validation.tokens_input = pw.sum_in
        /\ costs_generation.tokens_output + costs_validation.tokens_output
              = pw.sum_out

\* C29 witness: a step of several workers ended after responses in both lanes,
\* all of them reporting tokens
C29_Witness ==
    /\ pw.at = "next"
    /\ pw.n >= 2
    /\ costs_generation.calls >= 2
    /\ costs_validation.calls >= 1
    /\ pw.sum_in = pw.responses /\ pw.sum_out = pw.responses

\* C30 (as claimed): during a parallel step the workers write no shared
\* mutable state other than the cost counters and their own result slot: in
\* particular they have written nothing to the audit log of the generator.
C30_WorkersWriteOnlyLedgerAndSlot ==
    pw.at = "running" => pw.audit = 0

\* C30 divergence: every worker of a running step over several scenes has
\* appended to the audit log and none has returned yet
C30_Witness ==
    /\ pw.at = "running"
    /\ pw.n >= 2
    /\ \A t \in Workers(pw.n) : pw.wpc[t] = "request" /\ pw.phase[t] = "generation"
    /\ pw.audit = pw.n

-----------------------------------------------------------------------------
(* Properties of the run records of the backend (SpecBackend) *)

\* C34 (as claimed): once a run record's status is completed or failed, it
\* never changes again, whatever the interleaving of the background thread
\* with the other requests, the deletion of the dream included.
C34_TerminalStatusNeverChanges ==
    [][\A r \in 1..Len(ask.runs) :
          ask.runs[r].status \in {"completed", "failed"}
              => ask.runs'[r].status = ask.runs[r].status]_vars

\* C34 witness: a run that stored its video path and became completed is now
\* failed, with the error of the lookup of the deleted dream
C34_Witness ==
    /\ ~ask.dream_exists
    /\ \E r \in 1..Len(ask.runs) :
          /\ ask.runs[r].status = "failed"
          /\ ask.runs[r].video_path
          /\ ask.runs[r].error_message = "KeyError"

-----------------------------------------------------------------------------
(* Properties of the pose edit (SpecPose) *)

\* C31: a pose-edit generation for a scene's end keyframe starts only after
\* that scene's start keyframe has been finalized and registered, and it
\* always uses that registered start image as its source.
C31_PoseEditAfterRegisteredStart ==
    \A i \in 1..Len(v7.calls) :
        v7.calls[i].kind = "pose_edit" =>
            /\ v7.calls[i].start_finalized
            /\ v7.start_path # "none"
            /\ v7.calls[i].source_image = v7.start_path

\* C31 witness: the DISCOVERY scene of a pub run, its start made by the
\* switch, its end made by two pose edits of that start
C31_Witness ==
    /\ v7.at = "done"
    /\ v7.is_pub_mode /\ v7.scene_phase = "DISCOVERY"
    /\ v7.start_path = "switched"
    /\ Len(v7.calls) = 2
    /\ \A i \in 1..2 : /\ v7.calls[i].kind = "pose_edit"
                       /\ v7.calls[i].source_image = "switched"

\* The start was not registered: the end keyframe is generated, not edited
C31_WitnessNoStart ==
    /\ v7.at = "done"
    /\ v7.is_pub_mode /\ v7.scene_phase = "DISCOVERY"
    /\ v7.start_path = "none"
    /\ Len(v7.calls) >= 1
    /\ \A i \in 1..Len(v7.calls) : v7.calls[i].kind = "keyframe"

-----------------------------------------------------------------------------
(* Properties of the progress callback (SpecProgress) *)

\* C35: the percentages delivered to the progress callback during one run
\* are each between 0 and 100 and form a non-decreasing sequence.
C35_ProgressBoundedAndMonotone ==
    /\ \A i \in 1..Len(sg.emitted) : sg.emitted[i] \in 0..100
    /\ \A i \in 1..(Len(sg.emitted) - 1) : sg.emitted[i] <= sg.emitted[i + 1]

\* C35 witness: a run with two scenes or more went through every stage, and
\* the callback received a percentage for the last scene of the keyframe loop
\* and for the last scene of the video loop
C35_Witness ==
    /\ sg.at = "done" /\ ~sg.raised
    /\ sg.n >= 2
    /\ \E i \in 1..Len(sg.emitted) : sg.emitted[i] = KfPct(sg.n - 1, sg.n)
    /\ \E i \in 1..Len(sg.emitted) :
          /\ sg.emitted[i] = VidPct(sg.n - 1, sg.n)
          /\ sg.emitted[i - 1] = VidPct(sg.n - 2, sg.n)
    /\ sg.emitted[Len(sg.emitted)] = 93

-----------------------------------------------------------------------------
(* Properties of a validated attempt whose review failed (SpecVerdict) *)

\* C38: when the vision call fails or its output does not parse, the verdict
\* of the attempt is the verdict of the identity check alone, and the attempt
\* is accepted with score 0 when no identity check applies.
C38_FailedReviewLeavesIdentityVerdict ==
    (gm.at = "returned" /\ gm.resp.kind # "json") =>
        /\ gm.out.passed <=> (gm.face # "failed")
        /\ gm.face = "none" => (gm.out.passed /\ gm.out.global_score = 0)

\* C38 witness: the answer of the vision model did not parse, no identity
\* check was made, and the attempt was accepted with score 0
C38_Witness ==
    /\ gm.at = "returned"
    /\ gm.resp.kind = "no_json"
    /\ gm.face = "none"
    /\ gm.out.passed /\ gm.out.global_score = 0 /\ gm.out.gemini_skipped

\* The same failure with an identity check that rejected the attempt
C38_WitnessIdentityRejects ==
    /\ gm.at = "returned"
    /\ gm.resp.kind = "call_failed"
    /\ gm.face = "failed"
    /\ ~gm.out.passed

-----------------------------------------------------------------------------
(* Properties of the validator within one run (SpecIdentity) *)

\* C37 (as claimed): with a reference photo supplied, every validated attempt
\* of a non-POV keyframe whose shot type has a tolerance undergoes the
\* identity check, whether or not the character-analysis stage executed.
C37_IdentityCheckAlwaysApplied ==
    (/\ fv.at = "returned"
     /\ ~fv.in.dry_run
     /\ fv.in.user_photo
     /\ ShotTolerance(fv.in.shot_type) # NoTolerance)
    => fv.result.face_called

\* C37 witness: a photo was supplied and the analysis stage was switched off;
\* the attempt of a medium shot was validated without the identity check and
\* passed on the semantic review alone
C37_Witness ==
    /\ fv.at = "returned"
    /\ ~fv.in.dry_run /\ fv.in.user_photo /\ ~fv.analyze_character
    /\ fv.in.shot_type = "medium"
    /\ fv.in.model /\ fv.in.gemini_passed
    /\ ~fv.result.face_called
    /\ fv.result.passed

-----------------------------------------------------------------------------
(* Properties of the attempts and the files of one keyframe (SpecCalls,    *)
(* SpecKf)                                                                 *)

\* C32: the number of image-generation calls made for a keyframe never
\* exceeds the attempt bound of that keyframe, and no generation call is made
\* after one of its attempts has been accepted: only the last call so far can
\* be an accepted one.
C32_CallsBoundedAndStopAtAcceptance ==
    /\ Len(log) <= AttemptBound
    /\ \A k \in 1..(Len(log) - 1) : ~Accepted(k)

\* C32 witness: a validated keyframe of the switch loop whose loop ended with
\* as many calls as its bound allows, the last of them accepted after a
\* rejected one
C32_Witness ==
    /\ IsSwitch
    /\ kfres.done /\ kfctx.validating
    /\ AttemptBound >= 2
    /\ Len(log) = AttemptBound
    /\ log[AttemptBound - 1].gen /\ ~log[AttemptBound - 1].passed
    /\ Accepted(AttemptBound)

\* The same in the attempt loop of an ordinary keyframe
C32_WitnessAttemptLoop ==
    /\ ~IsSwitch
    /\ kfres.done /\ kfctx.validating
    /\ KfBound >= 2
    /\ Len(log) = KfBound
    /\ ~Accepted(KfBound - 1)
    /\ Accepted(KfBound)

\* C40 (as claimed): after the attempts of a keyframe are finished (accepted,
\* degraded to the best attempt, or failed), no temporary best-candidate file
\* of that keyframe remains on disk.
C40_NoBestFileLeft ==
    kfres.done => kfres.best_img = 0

\* C40 divergence: a keyframe accepted at its second attempt, with the
\* best-candidate file of the rejected first attempt still on disk
C40_Witness ==
    /\ kfres.done /\ loop.success
    /\ Len(log) = 2
    /\ kfres.registered /\ kfres.artifact = 2
    /\ kfres.best_img = 1

=============================================================================
